---- MODULE Spec2Model ----
(***************************************************************************)
(* Model of the ATM trip planner (WaverAndrew/atm).                        *)
(*                                                                         *)
(* SpecInfer  : the vehicle inference / trip evaluation functions of the   *)
(*              planner variants (final_threaded_with_destination.py,      *)
(*              final_threaded.py, final.py, delta.py, epsilon.py) applied *)
(*              to bounded reading sequences.                              *)
(*                                                                         *)
(*              Both polls of final_threaded_with_destination.py return    *)
(*              the same readings here; Spec polls twice.                  *)
(*                                                                         *)
(* SpecBatch  : MetroAPI.get_waiting_times_batch with its pool workers,    *)
(*              the cache of final_threaded_with_destination.py and the    *)
(*              clock.                                                     *)
(*                                                                         *)
(* Spec       : a catalog of line 15 in its two directions, candidates     *)
(*              marked by update_lines_with_candidates, then plan_trip     *)
(*              and best_tram of final_threaded_with_destination.py (as    *)
(*              POST /plan of atm_api.py drives them) and of               *)
(*              final_threaded.py, line by line and poll by poll.          *)
(*                                                                         *)
(* SpecUpdate : update_lines_with_candidates alone, call after call, with  *)
(*              candidates naming stops on and off the line.               *)
(*                                                                         *)
(* SpecApi    : two POST /plan requests of atm_api.py handled by           *)
(*              concurrent threads on the shared catalog and planner.      *)
(*                                                                         *)
(* SpecCache  : the cache of MetroAPI under _cache_lock, with the scan of  *)
(*              a batch and two pool workers interleaved.                  *)
(*                                                                         *)
(* SpecLoad   : load_lines_from_file on catalog documents with missing     *)
(*              fields and arbitrary station indices.                      *)
(*                                                                         *)
(* SpecScenario: plan_trip and best_tram of both threaded variants on    *)
(*              one line of six stops with readings [8, 5, 3, x, y].       *)
(*                                                                         *)
(* SpecRequest: the request validation and conversion of POST /plan of     *)
(*              atm_api.py on bodies with and without each candidate list. *)
(*                                                                         *)
(* Python floats are modelled as exact rationals [num, den] in lowest      *)
(* terms; Python None is NONE for readings and Undefined for rationals.    *)
(***************************************************************************)
EXTENDS Integers, Sequences, FiniteSets, TLC

\* ------------------------------------------------------------------------
\* Bounds of the model
\* ------------------------------------------------------------------------
MaxLen == 4

MaxWait == 3

MaxWalk == 3

MaxBatchLen == 2

MaxSignal == 0

MaxTicks == 2

MaxPlanWalk == 2

MaxDestWalk == 1

MaxRequests == 2

\* ------------------------------------------------------------------------
\* Values
\* ------------------------------------------------------------------------
NONE == -1

Readings == {NONE} \cup (0..MaxWait)

ReadingSeqs == UNION {[1..k -> Readings] : k \in 1..MaxLen}

TramCounts == {2, 3}

Variants == {"dest", "threaded", "final", "delta", "epsilon"}

\* ------------------------------------------------------------------------
\* Exact rationals standing for Python floats
\* ------------------------------------------------------------------------
RECURSIVE GCD(_, _)
GCD(a, b) == IF b = 0 THEN a ELSE GCD(b, a % b)

Abs(x) == IF x < 0 THEN -x ELSE x

Rat(a, b) == LET g == GCD(Abs(a), b) IN [num |-> a \div g, den |-> b \div g]

RInt(k) == [num |-> k, den |-> 1]

Undefined == [num |-> 0, den |-> 0]

RAdd(x, y) == Rat(x.num * y.den + y.num * x.den, x.den * y.den)

RSub(x, y) == Rat(x.num * y.den - y.num * x.den, x.den * y.den)

RMulInt(k, x) == Rat(k * x.num, x.den)

RLeq(x, y) == x.num * y.den <= y.num * x.den

RLess(x, y) == x.num * y.den < y.num * x.den

RMax(x, y) == IF RLess(x, y) THEN y ELSE x

\* ------------------------------------------------------------------------
\* Inference engine
\* ------------------------------------------------------------------------
\* an unavailable reading taken for a vehicle one minute away
NumericUnavailableAsOne(raw) == [i \in 1..Len(raw) |-> IF raw[i] = NONE THEN 1 ELSE raw[i]]

\* numeric = [(x if x is not None else 0) for x in raw_list]
Numeric(raw) == [i \in 1..Len(raw) |-> IF raw[i] = NONE THEN 0 ELSE raw[i]]

RECURSIVE SumSeq(_)
SumSeq(s) == IF s = <<>> THEN 0 ELSE Head(s) + SumSeq(Tail(s))

\* the loop "for i in range(len(numeric) - 1)" collecting the differences
\* until the next value is greater than the current one (i is 1-based)
RECURSIVE DiffLoop(_, _, _)
DiffLoop(numeric, i, differences) ==
    IF i > Len(numeric) - 1 THEN differences
    ELSE IF numeric[i + 1] > numeric[i] THEN differences
    ELSE DiffLoop(numeric, i + 1, Append(differences, numeric[i] - numeric[i + 1]))

Differences(raw) == DiffLoop(Numeric(raw), 1, <<>>)

\* final_threaded.py: avg if avg > 0 else 2
ComputeAverageTravelTime(raw) ==
    LET differences == Differences(raw) IN
    IF differences # <<>>
    THEN LET avg == Rat(SumSeq(differences), Len(differences)) IN
         IF RLess(RInt(0), avg) THEN avg ELSE RInt(2)
    ELSE RInt(2)

\* final.py: the same estimator
ComputeAverageTravelTimeFinal(raw) ==
    LET differences == Differences(raw) IN
    IF differences # <<>>
    THEN LET avg == Rat(SumSeq(differences), Len(differences)) IN
         IF RLess(RInt(0), avg) THEN avg ELSE RInt(2)
    ELSE RInt(2)

\* the estimator without the clamp "avg = max(avg, 2.0)"
LineTravelTimeNoClamp(raw) ==
    LET differences == Differences(raw) IN
    IF differences # <<>>
    THEN Rat(SumSeq(differences), Len(differences))
    ELSE RInt(2)

\* final_threaded_with_destination.py: the estimate computed from a polled
\* list (the part of _compute_line_travel_time after the poll)
LineTravelTimeFrom(raw) ==
    LET differences == Differences(raw)
        avg == IF differences # <<>>
               THEN Rat(SumSeq(differences), Len(differences))
               ELSE RInt(2)
    IN RMax(avg, RInt(2))

\* the loop "for i in range(1, len(numeric))" of _find_n_trams_increment;
\* i is the 1-based position, so the offset in the sequence is i - 1
RECURSIVE FindLoop(_, _, _, _, _)
FindLoop(numeric, cidx, n, i, found) ==
    IF i > Len(numeric) THEN found
    ELSE IF Len(found) >= n THEN found
    ELSE IF numeric[i] > numeric[i - 1]
         THEN FindLoop(numeric, cidx, n, i + 1,
                       Append(found, [raw_wait |-> numeric[i], station_idx |-> cidx - (i - 1)]))
         ELSE FindLoop(numeric, cidx, n, i + 1, found)

\* the loop recording the offset in the sequence instead of the stop index
RECURSIVE FindLoopOffset(_, _, _, _, _)
FindLoopOffset(numeric, cidx, n, i, found) ==
    IF i > Len(numeric) THEN found
    ELSE IF Len(found) >= n THEN found
    ELSE IF numeric[i] > numeric[i - 1]
         THEN FindLoopOffset(numeric, cidx, n, i + 1,
                       Append(found, [raw_wait |-> numeric[i], station_idx |-> i - 1]))
         ELSE FindLoopOffset(numeric, cidx, n, i + 1, found)

FoundOffsetIdx(raw, cidx, n) ==
    LET numeric == Numeric(raw) IN
    FindLoopOffset(numeric, cidx, n, 2, <<[raw_wait |-> numeric[1], station_idx |-> cidx]>>)

\* the loop opening a new vehicle on "greater or equal"
RECURSIVE FindLoopGeq(_, _, _, _, _)
FindLoopGeq(numeric, cidx, n, i, found) ==
    IF i > Len(numeric) THEN found
    ELSE IF Len(found) >= n THEN found
    ELSE IF numeric[i] >= numeric[i - 1]
         THEN FindLoopGeq(numeric, cidx, n, i + 1,
                       Append(found, [raw_wait |-> numeric[i], station_idx |-> cidx - (i - 1)]))
         ELSE FindLoopGeq(numeric, cidx, n, i + 1, found)

FoundGeq(raw, cidx, n) ==
    LET numeric == Numeric(raw) IN
    FindLoopGeq(numeric, cidx, n, 2, <<[raw_wait |-> numeric[1], station_idx |-> cidx]>>)

Found(raw, cidx, n) ==
    LET numeric == Numeric(raw) IN
    FindLoop(numeric, cidx, n, 2, <<[raw_wait |-> numeric[1], station_idx |-> cidx]>>)

\* an arrival that leaves out the ride from the vehicle's stop
ComputeArrivalNoDistance(station_idx, candidate_idx, raw_wait, avg_time) ==
    RInt(raw_wait)

ComputeArrival(station_idx, candidate_idx, raw_wait, avg_time) ==
    LET dist == candidate_idx - station_idx IN
    RAdd(RInt(raw_wait), RMulInt(dist, avg_time))

\* the evaluation with "arrival > walking_time"
EvaluateStrict(tram, cidx, walk, avg_time, reported) ==
    LET arrival == ComputeArrival(tram.station_idx, cidx, tram.raw_wait, avg_time)
        feasible == RLess(RInt(walk), arrival)
    IN [arrival |-> arrival,
        feasible |-> feasible,
        walk_time |-> walk,
        wait_at_stop |-> IF feasible THEN RSub(arrival, RInt(walk)) ELSE Undefined,
        raw_wait |-> tram.raw_wait,
        station_idx |-> tram.station_idx,
        avg_travel_time |-> reported]

\* one element of "results". final_threaded_with_destination.py reports
\* avg_travel_time in the dict; the older variants do not, and the field
\* carries the estimate their _compute_arrival was given
Evaluate(tram, cidx, walk, avg_time, reported) ==
    LET arrival == ComputeArrival(tram.station_idx, cidx, tram.raw_wait, avg_time)
        feasible == RLeq(RInt(walk), arrival)
    IN [arrival |-> arrival,
        feasible |-> feasible,
        walk_time |-> walk,
        wait_at_stop |-> IF feasible THEN RSub(arrival, RInt(walk)) ELSE Undefined,
        raw_wait |-> tram.raw_wait,
        station_idx |-> tram.station_idx,
        avg_travel_time |-> reported]

SubSeqN(s, n) == SubSeq(s, 1, IF Len(s) < n THEN Len(s) ELSE n)

\* _find_n_trams_increment after the readings are in: raw is the gathered
\* list, avg_time the estimate used by _compute_arrival
FindNTrams(raw, cidx, walk, n, avg_time) ==
    LET found == Found(raw, cidx, n)
        res == [k \in 1..Len(found) |-> Evaluate(found[k], cidx, walk, avg_time, avg_time)]
    IN SubSeqN(res, n)

\* delta.py find_two_trams: a later reading starts the second tram when it
\* is greater than the FIRST tram's wait
RECURSIVE DeltaLoop(_, _, _, _)
DeltaLoop(numeric, cidx, i, found) ==
    IF i > Len(numeric) THEN found
    ELSE IF numeric[i] > found[1].raw_wait
         THEN Append(found, [raw_wait |-> numeric[i], station_idx |-> cidx - (i - 1)])
         ELSE DeltaLoop(numeric, cidx, i + 1, found)

FoundDelta(raw, cidx) ==
    LET numeric == Numeric(raw) IN
    DeltaLoop(numeric, cidx, 2, <<[raw_wait |-> numeric[1], station_idx |-> cidx]>>)

FindTwoTrams(raw, cidx, walk, travel) ==
    LET found == FoundDelta(raw, cidx) IN
    [k \in 1..Len(found) |-> Evaluate(found[k], cidx, walk, RInt(travel), Undefined)]

\* epsilon.py _find_two_trams_increment: compares with the previous reading
RECURSIVE EpsilonLoop(_, _, _, _)
EpsilonLoop(numeric, cidx, i, found) ==
    IF i > Len(numeric) THEN found
    ELSE IF numeric[i] > numeric[i - 1]
         THEN Append(found, [raw_wait |-> numeric[i], station_idx |-> cidx - (i - 1)])
         ELSE EpsilonLoop(numeric, cidx, i + 1, found)

FoundEpsilon(raw, cidx) ==
    LET numeric == Numeric(raw) IN
    EpsilonLoop(numeric, cidx, 2, <<[raw_wait |-> numeric[1], station_idx |-> cidx]>>)

FindTwoTramsIncrement(raw, cidx, walk, travel) ==
    LET found == FoundEpsilon(raw, cidx)
        res == [k \in 1..Len(found) |-> Evaluate(found[k], cidx, walk, RInt(travel), Undefined)]
    IN SubSeqN(res, 2)

travel_time_between_stations == 2


\* ------------------------------------------------------------------------
\* Signal source and polling layer (MetroAPI)
\* ------------------------------------------------------------------------
cache_timeout == 60

max_workers == 10

StationCodes == {"a", "b"}

BatchLineCode == "15"

AllStationCodes == {"a", "b", "c"}

Keys == AllStationCodes \X {BatchLineCode}

\* f"{station_code}:{line_code}"
CacheKey(code, line_code) == <<code, line_code>>

\* the WaitMessage of a line object: absent/empty, "updating", "in arrivo",
\* "<k> min", a message with "min" but no digits, or any other text
WaitMessages ==
    {[text |-> t, minutes |-> 0] : t \in {"", "updating", "in arrivo", "min", "other"}}
    \cup {[text |-> "k min", minutes |-> k] : k \in 0..MaxSignal}

ParseWaitMessage(msg) ==
    IF msg.text = "" THEN NONE
    ELSE IF msg.text = "k min" THEN msg.minutes
    ELSE IF msg.text = "min" THEN NONE
    ELSE IF msg.text = "in arrivo" THEN 1
    ELSE IF msg.text = "updating" THEN NONE
    ELSE NONE

NoMessage == [text |-> "", minutes |-> 0]

Failures == {"RequestException", "JSONDecodeError", "Exception", "absent"}

\* what one request to the provider ends in: an exception, a payload
\* without the line code, or a line object with its wait message
Responses ==
    {[kind |-> f, msg |-> NoMessage] : f \in Failures}
    \cup {[kind |-> "line", msg |-> m] : m \in WaitMessages}

\* a failed fetch handing back a reading of 0 instead of None
FetchResultZero(resp) ==
    IF resp.kind = "line" THEN ParseWaitMessage(resp.msg) ELSE 0

\* the value _get_waiting_time_single returns for a response
FetchResult(resp) ==
    IF resp.kind = "line" THEN ParseWaitMessage(resp.msg) ELSE NONE

NoEntry == [value |-> NONE, timestamp |-> NONE]

EmptyCache == [k \in Keys |-> NoEntry]

\* a validity test that still accepts an entry exactly cache_timeout old
IsCacheValidInclusive(c, key, t) ==
    /\ c[key] # NoEntry
    /\ (t - c[key].timestamp) <= cache_timeout

\* _is_cache_valid at time t for the entry of the key
IsCacheValid(c, key, t) ==
    /\ c[key] # NoEntry
    /\ (t - c[key].timestamp) < cache_timeout

Pending == NONE - 1

HalfTimeout == cache_timeout \div 2

\* ------------------------------------------------------------------------
\* Catalog
\* ------------------------------------------------------------------------
Station(code, index) ==
    [code |-> code, walking_time |-> 0, index |-> index, active |-> FALSE,
     is_destination |-> FALSE, destination_walking_time |-> 0]

\* load_line_data: the stations sorted by index, no marking set
LoadLine(line_code, direction, codes) ==
    [line_code |-> line_code, direction |-> direction,
     stations |-> [p \in 1..Len(codes) |-> Station(codes[p], p - 1)]]

\* the catalog of the model: line 15 in its two directions over the same stops
LoadedLines ==
    << LoadLine("15", "0", <<"a", "b", "c">>),
       LoadLine("15", "1", <<"c", "b", "a">>) >>

LineCodes == {"15"}

\* position of the first station of the list that satisfies a test, 0 if none
FirstPos(sts, Test(_)) ==
    IF \E p \in 1..Len(sts) : Test(sts[p])
    THEN CHOOSE p \in 1..Len(sts) : Test(sts[p]) /\ \A q \in 1..(p - 1) : ~Test(sts[q])
    ELSE 0

\* a candidate dict maps some line codes to {direction, target_station_code,
\* walking_time}; NoCandidate stands for a code that is not a key
NoCandidate == [direction |-> "", target_station_code |-> "", walking_time |-> 0]

\* a marking that does not look at the candidate's direction
MarkStartAnyDirection(line, c) ==
    IF c # NoCandidate
    THEN LET HasCode(st) == st.code = c.target_station_code
             p == FirstPos(line.stations, HasCode)
         IN IF p = 0 THEN line
            ELSE [line EXCEPT !.stations[p].active = TRUE,
                              !.stations[p].walking_time = c.walking_time]
    ELSE line

MarkStart(line, c) ==
    IF c # NoCandidate /\ c.direction = line.direction
    THEN LET HasCode(st) == st.code = c.target_station_code
             p == FirstPos(line.stations, HasCode)
         IN IF p = 0 THEN line
            ELSE [line EXCEPT !.stations[p].active = TRUE,
                              !.stations[p].walking_time = c.walking_time]
    ELSE line

MarkEnd(line, c) ==
    IF c # NoCandidate /\ c.direction = line.direction
    THEN LET HasCode(st) == st.code = c.target_station_code
             p == FirstPos(line.stations, HasCode)
         IN IF p = 0 THEN line
            ELSE [line EXCEPT !.stations[p].is_destination = TRUE,
                              !.stations[p].destination_walking_time = c.walking_time]
    ELSE line

UpdateLinesWithCandidates(ls, start_candidates, end_candidates) ==
    [i \in 1..Len(ls) |->
        MarkEnd(MarkStart(ls[i], start_candidates[ls[i].line_code]),
                end_candidates[ls[i].line_code])]

\* ------------------------------------------------------------------------
\* TripPlanner: plan_trip and best_tram
\* ------------------------------------------------------------------------
NoPlan == <<[line |-> 0]>>

\* best_tram returned None
NoBest == [station_line |-> 0, tram |-> 0]

\* best_tram has not returned yet
NotCalled == [station_line |-> NONE, tram |-> 0]

IsActive(st) == st.active

IsDestination(st) == st.is_destination

\* stations_to_check: the codes from the station at list position p down to
\* position 1 (index 0)
StationsToCheck(line, index) == [k \in 1..(index + 1) |-> line.stations[index + 2 - k].code]

\* get_waiting_times_batch as one step over stations with distinct codes:
\* a position with a valid cache entry takes the cached value, any other one
\* the result of its own request
PollResults(c, t, codes, line_code, resp, cached) ==
    [k \in 1..Len(codes) |->
        IF cached /\ IsCacheValid(c, CacheKey(codes[k], line_code), t)
        THEN c[CacheKey(codes[k], line_code)].value
        ELSE FetchResult(resp[k])]

PollCache(c, t, codes, line_code, resp, cached) ==
    IF ~cached THEN c
    ELSE [key \in DOMAIN c |->
            IF \E k \in 1..Len(codes) :
                  /\ key = CacheKey(codes[k], line_code)
                  /\ ~IsCacheValid(c, key, t)
                  /\ resp[k].kind = "line"
            THEN LET k == CHOOSE k \in 1..Len(codes) : key = CacheKey(codes[k], line_code)
                 IN [value |-> FetchResult(resp[k]), timestamp |-> t]
            ELSE c[key]]

\* _compute_arrival reading a fixed 2.0 instead of the line's estimate
ComputeArrivalDefault(times, line_code, station_idx, candidate_idx, raw_wait) ==
    ComputeArrival(station_idx, candidate_idx, raw_wait, RInt(2))

\* _compute_arrival of final_threaded_with_destination.py:
\* self._line_travel_times.get(line.line_code, 2.0)
ComputeArrivalDest(times, line_code, station_idx, candidate_idx, raw_wait) ==
    LET avg_time == IF line_code \in DOMAIN times THEN times[line_code] ELSE RInt(2)
    IN ComputeArrival(station_idx, candidate_idx, raw_wait, avg_time)

EvaluateDest(times, line_code, tram, cidx, walk, reported) ==
    LET arrival == ComputeArrivalDest(times, line_code, tram.station_idx, cidx, tram.raw_wait)
        feasible == RLeq(RInt(walk), arrival)
    IN [arrival |-> arrival,
        feasible |-> feasible,
        walk_time |-> walk,
        wait_at_stop |-> IF feasible THEN RSub(arrival, RInt(walk)) ELSE Undefined,
        raw_wait |-> tram.raw_wait,
        station_idx |-> tram.station_idx,
        avg_travel_time |-> reported]

\* _find_n_trams_increment of final_threaded_with_destination.py after its
\* two polls
FindNTramsDest(times, line_code, raw, cidx, walk, k, reported) ==
    LET found == Found(raw, cidx, k)
        res == [j \in 1..Len(found) |->
                  EvaluateDest(times, line_code, found[j], cidx, walk, reported)]
    IN SubSeqN(res, k)

\* _compute_total_travel_time
ComputeTotalTravelTime(times, line_code, start_station, end_station) ==
    IF start_station.index > end_station.index THEN RInt(0)
    ELSE LET distance == end_station.index - start_station.index
             avg_time == IF line_code \in DOMAIN times THEN times[line_code] ELSE RInt(2)
         IN RMulInt(distance, avg_time)

\* the destination fields plan_trip adds to a tram
WithDestination(tram, total_travel, end_station) ==
    [arrival |-> tram.arrival, feasible |-> tram.feasible, walk_time |-> tram.walk_time,
     wait_at_stop |-> tram.wait_at_stop, raw_wait |-> tram.raw_wait,
     station_idx |-> tram.station_idx, avg_travel_time |-> tram.avg_travel_time,
     total_travel_time |-> total_travel,
     final_walking_time |-> end_station.destination_walking_time,
     total_time |-> RAdd(RAdd(tram.arrival, total_travel),
                         RInt(end_station.destination_walking_time))]

\* a tram of final_threaded.py: no destination fields
WithoutDestination(tram) ==
    [arrival |-> tram.arrival, feasible |-> tram.feasible, walk_time |-> tram.walk_time,
     wait_at_stop |-> tram.wait_at_stop, raw_wait |-> tram.raw_wait,
     station_idx |-> tram.station_idx, avg_travel_time |-> tram.avg_travel_time,
     total_travel_time |-> Undefined,
     final_walking_time |-> NONE,
     total_time |-> Undefined]

\* feasible_options: the feasible trams of the plan in the order of the
\* dict's entries and of each entry's list
RECURSIVE FeasibleOptions(_, _, _)
FeasibleOptions(plan, e, j) ==
    IF e > Len(plan) THEN <<>>
    ELSE IF j > Len(plan[e].trams) THEN FeasibleOptions(plan, e + 1, 1)
    ELSE IF plan[e].trams[j].feasible
         THEN <<[station_line |-> plan[e].line, tram |-> plan[e].trams[j]]>>
              \o FeasibleOptions(plan, e, j + 1)
         ELSE FeasibleOptions(plan, e, j + 1)

\* the sort key of best_tram: total_time with destinations, arrival without
SortKey(which, option) ==
    IF which = "dest" THEN option.tram.total_time ELSE option.tram.arrival

\* list.sort(key=...) is stable: an element goes behind the elements whose
\* key is less than or equal to its own
RECURSIVE InsertByKey(_, _, _)
InsertByKey(which, x, sorted) ==
    IF sorted = <<>> THEN <<x>>
    ELSE IF RLeq(SortKey(which, Head(sorted)), SortKey(which, x))
         THEN <<Head(sorted)>> \o InsertByKey(which, x, Tail(sorted))
         ELSE <<x>> \o sorted

RECURSIVE SortOptions(_, _, _)
SortOptions(which, options, sorted) ==
    IF options = <<>> THEN sorted
    ELSE SortOptions(which, Tail(options), InsertByKey(which, Head(options), sorted))

\* best_tram on the plan that plan_trip returned
BestTramOf(which, plan) ==
    LET feasible_options == FeasibleOptions(plan, 1, 1) IN
    IF feasible_options = <<>> THEN NoBest
    ELSE Head(SortOptions(which, feasible_options, <<>>))

\* ------------------------------------------------------------------------
\* State
\* ------------------------------------------------------------------------
VARIABLES
    variant,            \* which planner of the repository runs
    est_list,           \* readings the travel-time estimate is computed from
    raw_list,           \* readings gathered by _gather_raw_waits
    n,                  \* requested number of vehicles
    walking_time,       \* the boarding stop's walking_time
    avg_travel_time,    \* the travel-time estimate
    results,            \* the vehicles returned
    done,               \* the function has returned
    \* MetroAPI
    cache,              \* MetroAPI._cache: key -> [value, timestamp]
    now,                \* time.time()
    \* get_waiting_times_batch, one call after the other
    batch_pc,           \* "idle", "pool" (inside the executor block), "returned"
    stations,           \* the input list (station codes)
    batch_results,      \* the local list "results"
    stations_to_fetch,  \* the stations submitted to the pool
    station_indices,    \* their positions in the input list
    futures,            \* one future per submitted station
    reading_of,         \* per input position: the reading its own lookup gave
    outcome_of,         \* per input position: how its lookup ended
    \* catalog and TripPlanner
    lines,              \* the Line objects with their stations' markings
    cached_plan,        \* TripPlanner._cached_plan
    line_travel_times,  \* TripPlanner._line_travel_times
    pc,                 \* "idle" or inside plan_trip: "estimate", "gather"
    cursor,             \* position of plan_trip's loop in self.lines
    out,                \* the local dict "out" of plan_trip, in insertion order
    caller,             \* who called plan_trip: "plan_trip" or "best_tram"
    plan_returned,      \* the last value plan_trip returned
    best,               \* the last value best_tram returned
    requests,           \* number of update_lines_with_candidates calls made
    tram_lists,         \* what _find_n_trams_increment returned, line by line
    \* atm_api.py
    req,                \* per /plan request in flight: the handler's position and locals
    \* MetroAPI._cache_lock and the threads that take it
    cache_lock,         \* the thread holding _cache_lock, or NoThread
    threads,            \* per thread: position, station, the entry it read, its result
    \* load_lines_from_file
    document,           \* the "lines" list of the catalog document
    load_pc,            \* "file", "loaded" or "planned"
    loaded,             \* the list load_lines_from_file returned
    to_check,           \* the stations _gather_raw_waits selected, or IndexError
    \* the request validation of POST /plan
    request_body,       \* the JSON object of the request
    response            \* status and top-level keys of the answer

ivars == <<est_list, raw_list, n, walking_time, avg_travel_time, results, done>>

bvars == <<cache, now, batch_pc, stations, batch_results, stations_to_fetch,
           station_indices, futures, reading_of, outcome_of>>

pvars == <<lines, cached_plan, line_travel_times, pc, cursor, out, caller,
           plan_returned, best, requests, tram_lists>>

avars == <<req>>

cvars == <<cache_lock, threads>>

lvars == <<document, load_pc, loaded, to_check>>

rvars == <<request_body, response>>

vars == <<variant, ivars, bvars, pvars, avars, cvars, lvars, rvars>>

InferIdle ==
    /\ est_list = <<>> /\ raw_list = <<>> /\ n = 3 /\ walking_time = 0
    /\ avg_travel_time = Undefined /\ results = <<>> /\ done = FALSE

BatchIdle ==
    /\ cache = EmptyCache /\ now = 0 /\ batch_pc = "idle"
    /\ stations = <<>> /\ batch_results = <<>> /\ stations_to_fetch = <<>>
    /\ station_indices = <<>> /\ futures = <<>> /\ reading_of = <<>>
    /\ outcome_of = <<>>

PlanIdle ==
    /\ lines = <<>> /\ cached_plan = NoPlan /\ line_travel_times = <<>>
    /\ pc = "idle" /\ cursor = 0 /\ out = <<>> /\ caller = "plan_trip"
    /\ plan_returned = NoPlan /\ best = NotCalled /\ requests = 0
    /\ tram_lists = <<>>

\* the two clients whose /plan requests may be in flight together
Clients == {1, 2}

NoBody == [start |-> [c \in LineCodes |-> NoCandidate],
           end |-> [c \in LineCodes |-> NoCandidate]]

IdleRequest ==
    [pc |-> "idle", body |-> NoBody, cursor |-> 0, out |-> <<>>, who |-> "",
     start |-> 0, walk |-> 0, avg |-> Undefined, plan |-> NoPlan, best |-> NotCalled]

ApiIdle == req = [r \in Clients |-> IdleRequest]

\* the threads of the cache model: the cache scan of one batch and two pool
\* workers of a batch submitted before it
Threads == {"scan", "worker1", "worker2"}

NoThread == "none"

IdleThread ==
    [pc |-> "idle", code |-> "", idx |-> 0, seen |-> NoEntry, hit |-> FALSE,
     result |-> NONE, wrote |-> NoEntry]

CacheIdle == cache_lock = NoThread /\ threads = [t \in Threads |-> IdleThread]

\* a key of the JSON object that is not there, or the list under it
AbsentList == [present |-> FALSE, items |-> <<>>]

NoRequest ==
    [candidates |-> AbsentList, start_candidates |-> AbsentList,
     end_candidates |-> AbsentList]

NoResponse == [status |-> 0, keys |-> {}]

RequestIdle == request_body = NoRequest /\ response = NoResponse

LoadIdle == document = <<>> /\ load_pc = "idle" /\ loaded = <<>> /\ to_check = <<>>

InferInit ==
    /\ variant \in Variants
    /\ raw_list \in ReadingSeqs
    /\ est_list = raw_list
    /\ n \in IF variant \in {"delta", "epsilon"} THEN {2} ELSE TramCounts
    /\ walking_time \in 0..MaxWalk
    /\ avg_travel_time = Undefined
    /\ results = <<>>
    /\ done = FALSE
    /\ BatchIdle
    /\ PlanIdle
    /\ ApiIdle /\ CacheIdle /\ LoadIdle /\ RequestIdle

Cidx == Len(raw_list) - 1

RunDest ==
    /\ variant = "dest" /\ ~done
    /\ avg_travel_time' = LineTravelTimeFrom(est_list)
    /\ results' = FindNTrams(raw_list, Cidx, walking_time, n, avg_travel_time')
    /\ done' = TRUE
    /\ UNCHANGED <<rvars, cvars, lvars, req, variant, est_list, raw_list, n, walking_time, bvars, pvars>>

RunThreaded ==
    /\ variant = "threaded" /\ ~done
    /\ avg_travel_time' = ComputeAverageTravelTime(raw_list)
    /\ results' = FindNTrams(raw_list, Cidx, walking_time, n, avg_travel_time')
    /\ done' = TRUE
    /\ UNCHANGED <<rvars, cvars, lvars, req, variant, est_list, raw_list, n, walking_time, bvars, pvars>>

RunFinal ==
    /\ variant = "final" /\ ~done
    /\ avg_travel_time' = ComputeAverageTravelTimeFinal(raw_list)
    /\ results' = FindNTrams(raw_list, Cidx, walking_time, n, avg_travel_time')
    /\ done' = TRUE
    /\ UNCHANGED <<rvars, cvars, lvars, req, variant, est_list, raw_list, n, walking_time, bvars, pvars>>

RunDelta ==
    /\ variant = "delta" /\ ~done
    /\ avg_travel_time' = RInt(travel_time_between_stations)
    /\ results' = FindTwoTrams(raw_list, Cidx, walking_time, travel_time_between_stations)
    /\ done' = TRUE
    /\ UNCHANGED <<rvars, cvars, lvars, req, variant, est_list, raw_list, n, walking_time, bvars, pvars>>

RunEpsilon ==
    /\ variant = "epsilon" /\ ~done
    /\ avg_travel_time' = RInt(travel_time_between_stations)
    /\ results' = FindTwoTramsIncrement(raw_list, Cidx, walking_time, travel_time_between_stations)
    /\ done' = TRUE
    /\ UNCHANGED <<rvars, cvars, lvars, req, variant, est_list, raw_list, n, walking_time, bvars, pvars>>

InferNext == RunDest \/ RunThreaded \/ RunFinal \/ RunDelta \/ RunEpsilon

SpecInfer == InferInit /\ [][InferNext]_vars

\* ------------------------------------------------------------------------
\* get_waiting_times_batch (SpecBatch)
\* ------------------------------------------------------------------------
StationLists == UNION {[1..k -> StationCodes] : k \in 0..MaxBatchLen}

BatchInit ==
    /\ variant \in {"dest", "threaded"}
    /\ InferIdle
    /\ BatchIdle
    /\ PlanIdle
    /\ ApiIdle /\ CacheIdle /\ LoadIdle /\ RequestIdle

RECURSIVE Misses(_, _, _)
Misses(sts, c, i) ==
    IF i > Len(sts) THEN <<>>
    ELSE IF IsCacheValid(c, CacheKey(sts[i], BatchLineCode), now)
         THEN Misses(sts, c, i + 1)
         ELSE <<i>> \o Misses(sts, c, i + 1)

\* the cache scan of final_threaded_with_destination.py and the submission
\* of the uncached stations; final_threaded.py submits every station
BatchStart(sts) ==
    /\ batch_pc \in {"idle", "returned"}
    /\ stations' = sts
    /\ LET hit(i) == variant = "dest" /\ IsCacheValid(cache, CacheKey(sts[i], BatchLineCode), now)
           miss == IF variant = "dest" THEN Misses(sts, cache, 1)
                                       ELSE [i \in 1..Len(sts) |-> i]
       IN /\ batch_results' = [i \in 1..Len(sts) |->
                IF hit(i) THEN cache[CacheKey(sts[i], BatchLineCode)].value ELSE NONE]
          /\ station_indices' = miss
          /\ stations_to_fetch' = [k \in 1..Len(miss) |-> [pos |-> miss[k], code |-> sts[miss[k]]]]
          /\ futures' = [k \in 1..Len(miss) |->
                [state |-> "queued", result |-> NONE]]
          /\ reading_of' = [i \in 1..Len(sts) |->
                IF hit(i) THEN cache[CacheKey(sts[i], BatchLineCode)].value ELSE Pending]
          /\ outcome_of' = [i \in 1..Len(sts) |-> IF hit(i) THEN "cache" ELSE "pending"]
          /\ batch_pc' = IF variant = "dest" /\ miss = <<>> THEN "returned" ELSE "pool"
    /\ UNCHANGED <<rvars, cvars, lvars, req, variant, ivars, pvars, cache, now>>

\* a collection loop that stores at the position in stations_to_fetch
CollectSlotUnmapped(k) == k

\* the slot of the result list the collection loop writes for future k:
\* station_indices[idx] in the "dest" variant, idx in final_threaded.py
\* (where every station is submitted and station_indices[idx] = idx)
CollectSlot(k) == station_indices[k]

Running == {k \in 1..Len(futures) : futures[k].state = "running"}

\* a pool worker takes a submitted call: _get_waiting_time_single up to the
\* request (the cache check under _cache_lock in the "dest" variant; on a
\* hit the future completes and the as_completed loop stores its result)
WorkerStart(k) ==
    /\ batch_pc = "pool"
    /\ futures[k].state = "queued"
    /\ Cardinality(Running) < max_workers
    /\ LET st == stations_to_fetch[k]
           key == CacheKey(st.code, BatchLineCode)
       IN IF variant = "dest" /\ IsCacheValid(cache, key, now)
          THEN /\ futures' = [futures EXCEPT ![k].state = "done",
                                             ![k].result = cache[key].value]
               /\ batch_results' = [batch_results EXCEPT ![CollectSlot(k)] = cache[key].value]
               /\ reading_of' = [reading_of EXCEPT ![st.pos] = cache[key].value]
               /\ outcome_of' = [outcome_of EXCEPT ![st.pos] = "cache"]
          ELSE /\ futures' = [futures EXCEPT ![k].state = "running"]
               /\ UNCHANGED <<batch_results, reading_of, outcome_of>>
    /\ UNCHANGED <<rvars, cvars, lvars, req, variant, ivars, pvars, cache, now, batch_pc, stations,
                   stations_to_fetch, station_indices>>

\* a fetch that stores its result in the cache whatever the response was
WorkerFetchCachesAll(k, resp) ==
    /\ batch_pc = "pool"
    /\ futures[k].state = "running"
    /\ LET st == stations_to_fetch[k]
           key == CacheKey(st.code, BatchLineCode)
           result == FetchResult(resp)
       IN /\ cache' = IF variant = "dest"
                      THEN [cache EXCEPT ![key] = [value |-> result, timestamp |-> now]]
                      ELSE cache
          /\ futures' = [futures EXCEPT ![k].state = "done", ![k].result = result]
          /\ batch_results' = [batch_results EXCEPT ![CollectSlot(k)] = result]
          /\ reading_of' = [reading_of EXCEPT ![st.pos] = result]
          /\ outcome_of' = [outcome_of EXCEPT ![st.pos] =
                               IF resp.kind = "line" THEN "line" ELSE "failed"]
    /\ UNCHANGED <<rvars, cvars, lvars, req, variant, ivars, pvars, now, batch_pc, stations,
                   stations_to_fetch, station_indices>>

\* the request returns or raises; the result is cached (under _cache_lock)
\* only when the line code was found in the payload; the future completes
\* and the as_completed loop stores its result
WorkerFetch(k, resp) ==
    /\ batch_pc = "pool"
    /\ futures[k].state = "running"
    /\ LET st == stations_to_fetch[k]
           key == CacheKey(st.code, BatchLineCode)
           result == FetchResult(resp)
       IN /\ cache' = IF variant = "dest" /\ resp.kind = "line"
                      THEN [cache EXCEPT ![key] = [value |-> result, timestamp |-> now]]
                      ELSE cache
          /\ futures' = [futures EXCEPT ![k].state = "done", ![k].result = result]
          /\ batch_results' = [batch_results EXCEPT ![CollectSlot(k)] = result]
          /\ reading_of' = [reading_of EXCEPT ![st.pos] = result]
          /\ outcome_of' = [outcome_of EXCEPT ![st.pos] =
                               IF resp.kind = "line" THEN "line" ELSE "failed"]
    /\ UNCHANGED <<rvars, cvars, lvars, req, variant, ivars, pvars, now, batch_pc, stations,
                   stations_to_fetch, station_indices>>

\* every future is done: the executor block ends and the list is returned
BatchReturn ==
    /\ batch_pc = "pool"
    /\ \A k \in 1..Len(futures) : futures[k].state = "done"
    /\ batch_pc' = "returned"
    /\ UNCHANGED <<rvars, cvars, lvars, req, variant, ivars, pvars, cache, now, stations, batch_results,
                   stations_to_fetch, station_indices, futures, reading_of, outcome_of>>

Tick ==
    /\ now < MaxTicks * HalfTimeout
    /\ now' = now + HalfTimeout
    /\ UNCHANGED <<rvars, cvars, lvars, req, variant, ivars, pvars, cache, batch_pc, stations, batch_results,
                   stations_to_fetch, station_indices, futures, reading_of, outcome_of>>

BatchNext ==
    \/ \E sts \in StationLists : BatchStart(sts)
    \/ \E k \in 1..Len(futures) : WorkerStart(k)
    \/ \E k \in 1..Len(futures) : \E resp \in Responses : WorkerFetch(k, resp)
    \/ BatchReturn
    \/ Tick

SpecBatch == BatchInit /\ [][BatchNext]_vars

\* ------------------------------------------------------------------------
\* The planner on a catalog (Spec): candidates are marked, then plan_trip
\* and best_tram run (main of final_threaded_with_destination.py and of
\* final_threaded.py, POST /plan of atm_api.py)
\* ------------------------------------------------------------------------
PlanWalks == {MaxPlanWalk}

DestWalks == {MaxDestWalk}

Directions == {"0", "1"}

\* candidates for a boarding stop and for a destination stop of line 15
StartCandidates ==
    {NoCandidate} \cup
    {[direction |-> d, target_station_code |-> "b", walking_time |-> w] :
        d \in Directions, w \in PlanWalks}

EndCandidates ==
    {NoCandidate} \cup
    {[direction |-> d, target_station_code |-> t, walking_time |-> w] :
        d \in Directions, t \in {"a", "c"}, w \in DestWalks}

\* the wait messages the provider answers with in Spec
PlanMessages ==
    {[text |-> "in arrivo", minutes |-> 0], [text |-> "k min", minutes |-> MaxWait]}

PlanResponses ==
    {[kind |-> "RequestException", msg |-> NoMessage]}
    \cup {[kind |-> "line", msg |-> m] : m \in PlanMessages}

Init ==
    /\ variant \in {"dest", "threaded"}
    /\ InferIdle
    /\ BatchIdle
    /\ lines = LoadedLines
    /\ cached_plan = NoPlan /\ line_travel_times = <<>>
    /\ pc = "idle" /\ cursor = 0 /\ out = <<>> /\ caller = "plan_trip"
    /\ plan_returned = NoPlan /\ best = NotCalled /\ requests = 0
    /\ tram_lists = <<>>
    /\ ApiIdle /\ CacheIdle /\ LoadIdle /\ RequestIdle

\* update_lines_with_candidates; final_threaded.py has start candidates only.
\* A call that marks nothing new leaves the program's state as it is and is
\* not counted.
Update(start_candidates, end_candidates) ==
    /\ pc = "idle"
    /\ requests < MaxRequests
    /\ variant = "threaded" => \A c \in LineCodes : end_candidates[c] = NoCandidate
    /\ requests' = requests + 1
    /\ lines' = UpdateLinesWithCandidates(lines, start_candidates, end_candidates)
    /\ lines' # lines
    /\ UNCHANGED <<rvars, cvars, lvars, req, variant, ivars, bvars, cached_plan, line_travel_times, pc, cursor,
                   out, caller, plan_returned, best, tram_lists>>

\* plan_trip is called, by the user or by best_tram: the cached plan is
\* returned if there is one, otherwise the loop over self.lines starts
PlanTripCall(who) ==
    /\ pc = "idle"
    /\ IF cached_plan # NoPlan
       THEN /\ plan_returned' = cached_plan
            /\ best' = IF who = "best_tram" THEN BestTramOf(variant, cached_plan) ELSE best
            /\ UNCHANGED <<pc, cursor, out, caller, tram_lists>>
       ELSE /\ pc' = "line" /\ cursor' = 1 /\ out' = <<>> /\ caller' = who
            /\ tram_lists' = <<>>
            /\ UNCHANGED <<plan_returned, best>>
    /\ UNCHANGED <<rvars, cvars, lvars, req, variant, ivars, bvars, lines, cached_plan, line_travel_times, requests>>

StartPos == FirstPos(lines[cursor].stations, IsActive)

\* a line without an active station is passed over
PlanSkipLine ==
    /\ pc = "line" /\ cursor <= Len(lines)
    /\ StartPos = 0
    /\ cursor' = cursor + 1
    /\ UNCHANGED <<rvars, cvars, lvars, req, variant, ivars, bvars, lines, cached_plan, line_travel_times, pc, out,
                   caller, plan_returned, best, requests, tram_lists>>

\* _compute_line_travel_time for the line under the cursor: the estimate
\* stored for the line code, or a poll and the estimate computed from it
PlanEstimate ==
    /\ pc = "line" /\ cursor <= Len(lines)
    /\ variant = "dest"
    /\ StartPos # 0
    /\ LET line == lines[cursor]
           start_station == line.stations[StartPos]
           codes == StationsToCheck(line, start_station.index)
       IN IF line.line_code \in DOMAIN line_travel_times
          THEN /\ avg_travel_time' = line_travel_times[line.line_code]
               /\ est_list' = <<>>
               /\ UNCHANGED <<cache, line_travel_times>>
          ELSE \E resp \in [1..Len(codes) -> PlanResponses] :
               /\ \A k \in 1..Len(codes) :
                     IsCacheValid(cache, CacheKey(codes[k], line.line_code), now)
                        => resp[k].kind = "RequestException"
               /\ est_list' = PollResults(cache, now, codes, line.line_code, resp, TRUE)
               /\ cache' = PollCache(cache, now, codes, line.line_code, resp, TRUE)
               /\ avg_travel_time' = LineTravelTimeFrom(est_list')
               /\ line_travel_times' =
                     [c \in DOMAIN line_travel_times \cup {line.line_code} |->
                         IF c = line.line_code THEN avg_travel_time'
                         ELSE line_travel_times[c]]
    /\ pc' = "gather"
    /\ UNCHANGED <<rvars, cvars, lvars, req, variant, raw_list, n, walking_time, results, done,
                   now, batch_pc, stations, batch_results, stations_to_fetch,
                   station_indices, futures, reading_of, outcome_of,
                   lines, cached_plan, cursor, out, caller, plan_returned, best, requests,
                   tram_lists>>

\* the rest of the loop body for a line of final_threaded_with_destination.py:
\* _gather_raw_waits, the trams, the destination and the entry of "out"
PlanGatherDest ==
    /\ pc = "gather"
    /\ variant = "dest"
    /\ LET line == lines[cursor]
           start_station == line.stations[StartPos]
           codes == StationsToCheck(line, start_station.index)
           endPos == FirstPos(line.stations, IsDestination)
       IN \E resp \in [1..Len(codes) -> PlanResponses] :
          /\ \A k \in 1..Len(codes) :
                IsCacheValid(cache, CacheKey(codes[k], line.line_code), now)
                   => resp[k].kind = "RequestException"
          /\ raw_list' = PollResults(cache, now, codes, line.line_code, resp, TRUE)
          /\ cache' = PollCache(cache, now, codes, line.line_code, resp, TRUE)
          /\ LET tram_list == FindNTramsDest(line_travel_times, line.line_code, raw_list',
                                             start_station.index, start_station.walking_time,
                                             3, avg_travel_time)
             IN /\ tram_lists' = Append(tram_lists,
                                         [line |-> cursor, start |-> start_station.index,
                                          trams |-> tram_list])
                /\ out' = IF endPos # 0
                       THEN LET end_station == line.stations[endPos]
                                total_travel == ComputeTotalTravelTime(
                                    line_travel_times, line.line_code, start_station, end_station)
                            IN Append(out, [line |-> cursor,
                                            start |-> start_station.index,
                                            end |-> end_station.index,
                                            trams |-> [j \in 1..Len(tram_list) |->
                                                WithDestination(tram_list[j], total_travel,
                                                                end_station)]])
                       ELSE out
    /\ pc' = "line"
    /\ cursor' = cursor + 1
    /\ UNCHANGED <<rvars, cvars, lvars, req, variant, est_list, n, walking_time, avg_travel_time, results, done,
                   now, batch_pc, stations, batch_results, stations_to_fetch,
                   station_indices, futures, reading_of, outcome_of,
                   lines, cached_plan, line_travel_times, caller, plan_returned, best,
                   requests>>

\* the loop body for a line of final_threaded.py: one poll, the estimate
\* from it, the trams and the entry of "out"
PlanGatherThreaded ==
    /\ pc = "line" /\ cursor <= Len(lines)
    /\ variant = "threaded"
    /\ StartPos # 0
    /\ LET line == lines[cursor]
           start_station == line.stations[StartPos]
           codes == StationsToCheck(line, start_station.index)
       IN \E resp \in [1..Len(codes) -> PlanResponses] :
          /\ raw_list' = PollResults(cache, now, codes, line.line_code, resp, FALSE)
          /\ avg_travel_time' = ComputeAverageTravelTime(raw_list')
          /\ LET tram_list == FindNTrams(raw_list', start_station.index,
                                         start_station.walking_time, 3, avg_travel_time')
             IN /\ tram_lists' = Append(tram_lists,
                                         [line |-> cursor, start |-> start_station.index,
                                          trams |-> tram_list])
                /\ out' = Append(out, [line |-> cursor,
                                    start |-> start_station.index,
                                    end |-> NONE,
                                    trams |-> [j \in 1..Len(tram_list) |->
                                        WithoutDestination(tram_list[j])]])
    /\ est_list' = raw_list'
    /\ cursor' = cursor + 1
    /\ UNCHANGED <<rvars, cvars, lvars, req, variant, n, walking_time, results, done, bvars,
                   lines, cached_plan, line_travel_times, pc, caller, plan_returned, best,
                   requests>>

\* the loop is over: the plan is stored and returned; best_tram goes on
\* with it when it was the caller
PlanTripReturn ==
    /\ pc = "line" /\ cursor > Len(lines)
    /\ cached_plan' = out
    /\ plan_returned' = out
    /\ best' = IF caller = "best_tram" THEN BestTramOf(variant, out) ELSE best
    /\ pc' = "idle"
    /\ UNCHANGED <<rvars, cvars, lvars, req, variant, ivars, bvars, lines, line_travel_times, cursor, out, caller,
                   requests, tram_lists>>

PlanTick ==
    /\ pc \in {"line", "gather"}
    /\ variant = "dest"
    /\ now < MaxTicks * HalfTimeout
    /\ now' = now + cache_timeout
    /\ UNCHANGED <<rvars, cvars, lvars, req, variant, ivars, cache, batch_pc, stations, batch_results,
                   stations_to_fetch, station_indices, futures, reading_of, outcome_of,
                   pvars>>

Next ==
    \/ \E s \in [LineCodes -> StartCandidates] :
         \E e \in [LineCodes -> EndCandidates] : Update(s, e)
    \/ \E who \in {"plan_trip", "best_tram"} : PlanTripCall(who)
    \/ PlanSkipLine
    \/ PlanEstimate
    \/ PlanGatherDest
    \/ PlanGatherThreaded
    \/ PlanTripReturn
    \/ PlanTick

Spec == Init /\ [][Next]_vars

\* ------------------------------------------------------------------------
\* update_lines_with_candidates on the loaded catalog, call after call
\* (SpecUpdate): the candidates name any stop of the line or a code that is
\* not on it
\* ------------------------------------------------------------------------
UpdateTargets == {"a", "b", "z"}

UpdateStartCandidates ==
    {NoCandidate} \cup
    {[direction |-> d, target_station_code |-> t, walking_time |-> w] :
        d \in Directions, t \in UpdateTargets, w \in {0, MaxPlanWalk}}

UpdateEndCandidates ==
    {NoCandidate} \cup
    {[direction |-> d, target_station_code |-> t, walking_time |-> w] :
        d \in Directions, t \in UpdateTargets, w \in {MaxDestWalk}}

UpdateInit ==
    /\ variant = "dest"
    /\ InferIdle
    /\ BatchIdle
    /\ lines = LoadedLines
    /\ cached_plan = NoPlan /\ line_travel_times = <<>>
    /\ pc = "idle" /\ cursor = 0 /\ out = <<>> /\ caller = "plan_trip"
    /\ plan_returned = NoPlan /\ best = NotCalled /\ requests = 0
    /\ tram_lists = <<>>
    /\ ApiIdle /\ CacheIdle /\ LoadIdle /\ RequestIdle

UpdateNext ==
    \E s \in [LineCodes -> UpdateStartCandidates] :
        \E e \in [LineCodes -> UpdateEndCandidates] : Update(s, e)

SpecUpdate == UpdateInit /\ [][UpdateNext]_vars

\* ------------------------------------------------------------------------
\* POST /plan of atm_api.py served by concurrent handler threads (SpecApi):
\* the handlers share _lines and _planner; each runs
\* update_lines_with_candidates, _planner.plan_trip() and
\* _planner.best_tram() with its own locals. The clock stands still here.
\* ------------------------------------------------------------------------
Candidate(d, t, w) == [direction |-> d, target_station_code |-> t, walking_time |-> w]

\* request bodies: a trip on direction 0 from b to c, one on direction 1
\* from b to a
ApiBodies ==
    {[start |-> [c \in LineCodes |-> Candidate("0", "b", MaxPlanWalk)],
      end |-> [c \in LineCodes |-> Candidate("0", "c", MaxDestWalk)]],
     [start |-> [c \in LineCodes |-> Candidate("1", "b", MaxPlanWalk)],
      end |-> [c \in LineCodes |-> Candidate("1", "a", MaxDestWalk)]]}

ApiResponses ==
    {[kind |-> "RequestException", msg |-> NoMessage],
     [kind |-> "line", msg |-> [text |-> "k min", minutes |-> MaxWait]]}

ApiInit ==
    /\ variant = "dest"
    /\ InferIdle
    /\ BatchIdle
    /\ lines = LoadedLines
    /\ cached_plan = NoPlan /\ line_travel_times = <<>>
    /\ pc = "idle" /\ cursor = 0 /\ out = <<>> /\ caller = "plan_trip"
    /\ plan_returned = NoPlan /\ best = NotCalled /\ requests = 0
    /\ tram_lists = <<>>
    /\ ApiIdle /\ CacheIdle /\ LoadIdle /\ RequestIdle

\* what no handler step touches
ApiFrame ==
    UNCHANGED <<rvars, cvars, lvars, variant, ivars, now, batch_pc, stations, batch_results, stations_to_fetch,
                station_indices, futures, reading_of, outcome_of,
                pc, cursor, out, caller, plan_returned, best, requests, tram_lists>>

\* a request arrives and its candidates are converted
Receive(r, body) ==
    /\ req[r].pc = "idle"
    /\ req' = [req EXCEPT ![r].pc = "update", ![r].body = body, ![r].cursor = 1]
    /\ UNCHANGED <<lines, cached_plan, line_travel_times, cache>>
    /\ ApiFrame

\* one iteration of the loop of update_lines_with_candidates
ApiUpdateLine(r) ==
    /\ req[r].pc = "update"
    /\ LET i == req[r].cursor
           line == lines[i]
       IN /\ lines' = [lines EXCEPT ![i] =
                          MarkEnd(MarkStart(line, req[r].body.start[line.line_code]),
                                  req[r].body.end[line.line_code])]
          /\ req' = [req EXCEPT ![r].cursor = i + 1,
                                ![r].pc = IF i = Len(lines) THEN "plan_trip" ELSE "update"]
    /\ UNCHANGED <<cached_plan, line_travel_times, cache>>
    /\ ApiFrame

\* the handler is through with plan_trip (on to best_tram) or with best_tram
AfterPlan(r, who, plan) ==
    IF who = "plan_trip"
    THEN [req EXCEPT ![r].pc = "best_tram", ![r].plan = plan]
    ELSE [req EXCEPT ![r].pc = "done", ![r].plan = plan,
                     ![r].best = BestTramOf("dest", plan)]

\* the handler calls plan_trip, directly or through best_tram: the cached
\* plan is returned if there is one, otherwise the pass starts
ApiPlanTripCall(r) ==
    /\ req[r].pc \in {"plan_trip", "best_tram"}
    /\ req' = IF cached_plan # NoPlan
              THEN AfterPlan(r, req[r].pc, cached_plan)
              ELSE [req EXCEPT ![r].pc = "line", ![r].who = req[r].pc,
                               ![r].cursor = 1, ![r].out = <<>>]
    /\ UNCHANGED <<lines, cached_plan, line_travel_times, cache>>
    /\ ApiFrame

ApiSkipLine(r) ==
    /\ req[r].pc = "line" /\ req[r].cursor <= Len(lines)
    /\ FirstPos(lines[req[r].cursor].stations, IsActive) = 0
    /\ req' = [req EXCEPT ![r].cursor = req[r].cursor + 1]
    /\ UNCHANGED <<lines, cached_plan, line_travel_times, cache>>
    /\ ApiFrame

\* the start station is found, its walking_time read and
\* _compute_line_travel_time run
ApiEstimate(r) ==
    /\ req[r].pc = "line" /\ req[r].cursor <= Len(lines)
    /\ LET line == lines[req[r].cursor]
           pos == FirstPos(line.stations, IsActive)
       IN /\ pos # 0
          /\ LET start_station == line.stations[pos]
                 codes == StationsToCheck(line, start_station.index)
             IN IF line.line_code \in DOMAIN line_travel_times
                THEN /\ req' = [req EXCEPT ![r].pc = "gather", ![r].start = pos,
                                           ![r].walk = start_station.walking_time,
                                           ![r].avg = line_travel_times[line.line_code]]
                     /\ UNCHANGED <<cache, line_travel_times>>
                ELSE \E resp \in [1..Len(codes) -> ApiResponses] :
                     /\ \A k \in 1..Len(codes) :
                           IsCacheValid(cache, CacheKey(codes[k], line.line_code), now)
                              => resp[k].kind = "RequestException"
                     /\ LET avg == LineTravelTimeFrom(
                                PollResults(cache, now, codes, line.line_code, resp, TRUE))
                        IN /\ req' = [req EXCEPT ![r].pc = "gather", ![r].start = pos,
                                                 ![r].walk = start_station.walking_time,
                                                 ![r].avg = avg]
                           /\ line_travel_times' =
                                 [c \in DOMAIN line_travel_times \cup {line.line_code} |->
                                     IF c = line.line_code THEN avg
                                     ELSE line_travel_times[c]]
                     /\ cache' = PollCache(cache, now, codes, line.line_code, resp, TRUE)
    /\ UNCHANGED <<lines, cached_plan>>
    /\ ApiFrame

\* _gather_raw_waits, the trams, the destination station and the entry
ApiGather(r) ==
    /\ req[r].pc = "gather"
    /\ LET line == lines[req[r].cursor]
           start_station == line.stations[req[r].start]
           codes == StationsToCheck(line, start_station.index)
           endPos == FirstPos(line.stations, IsDestination)
       IN \E resp \in [1..Len(codes) -> ApiResponses] :
          /\ \A k \in 1..Len(codes) :
                IsCacheValid(cache, CacheKey(codes[k], line.line_code), now)
                   => resp[k].kind = "RequestException"
          /\ cache' = PollCache(cache, now, codes, line.line_code, resp, TRUE)
          /\ LET raw == PollResults(cache, now, codes, line.line_code, resp, TRUE)
                 tram_list == FindNTramsDest(line_travel_times, line.line_code, raw,
                                             start_station.index, req[r].walk, 3, req[r].avg)
                 entry == [line |-> req[r].cursor,
                           start |-> start_station.index,
                           end |-> line.stations[endPos].index,
                           trams |-> [j \in 1..Len(tram_list) |->
                               WithDestination(tram_list[j],
                                   ComputeTotalTravelTime(line_travel_times, line.line_code,
                                       start_station, line.stations[endPos]),
                                   line.stations[endPos])]]
             IN req' = [req EXCEPT ![r].pc = "line", ![r].cursor = req[r].cursor + 1,
                                   ![r].out = IF endPos # 0 THEN Append(req[r].out, entry)
                                              ELSE req[r].out]
    /\ UNCHANGED <<lines, cached_plan, line_travel_times>>
    /\ ApiFrame

\* the loop is over: the plan is stored under the lock and returned
ApiPlanReturn(r) ==
    /\ req[r].pc = "line" /\ req[r].cursor > Len(lines)
    /\ cached_plan' = req[r].out
    /\ req' = AfterPlan(r, req[r].who, req[r].out)
    /\ UNCHANGED <<lines, line_travel_times, cache>>
    /\ ApiFrame

ApiNext ==
    \/ \E r \in Clients : \E body \in ApiBodies : Receive(r, body)
    \/ \E r \in Clients : ApiUpdateLine(r)
    \/ \E r \in Clients : ApiPlanTripCall(r)
    \/ \E r \in Clients : ApiSkipLine(r)
    \/ \E r \in Clients : ApiEstimate(r)
    \/ \E r \in Clients : ApiGather(r)
    \/ \E r \in Clients : ApiPlanReturn(r)

SpecApi == ApiInit /\ [][ApiNext]_vars

\* ------------------------------------------------------------------------
\* The MetroAPI cache under _cache_lock (SpecCache): the cache scan of
\* get_waiting_times_batch and two calls of _get_waiting_time_single running
\* in pool workers, one statement block at a time.
\* ------------------------------------------------------------------------
ScanStations == <<"a", "b">>

CacheResponses ==
    {r \in Responses : \/ r.kind = "RequestException"
                       \/ r.kind = "line" /\ r.msg.text \in {"k min", "updating"}}

CacheInit ==
    /\ variant = "dest"
    /\ InferIdle
    /\ BatchIdle
    /\ PlanIdle
    /\ ApiIdle /\ LoadIdle /\ RequestIdle
    /\ cache_lock = NoThread
    /\ \E c1, c2 \in StationCodes :
          threads = [t \in Threads |->
              IF t = "scan"
              THEN [IdleThread EXCEPT !.pc = "begin", !.idx = 1, !.code = ScanStations[1]]
              ELSE [IdleThread EXCEPT !.pc = "begin",
                                      !.code = IF t = "worker1" THEN c1 ELSE c2]]

CacheFrame ==
    UNCHANGED <<rvars, lvars, req, variant, ivars, pvars, batch_pc, stations, batch_results,
                stations_to_fetch, station_indices, futures, reading_of, outcome_of>>

KeyOf(t) == CacheKey(threads[t].code, BatchLineCode)

\* a lock that can be taken while another thread holds it
LockFreeAlways == TRUE

\* Lock.acquire blocks until no thread holds the lock
LockFree == cache_lock = NoThread

\* "with self._cache_lock:" is entered, before the lookup or before the store
Acquire(t) ==
    /\ threads[t].pc \in {"begin", "store"}
    /\ LockFree
    /\ cache_lock' = t
    /\ threads' = [threads EXCEPT ![t].pc = IF threads[t].pc = "begin" THEN "read"
                                                                          ELSE "write"]
    /\ UNCHANGED <<cache, now>>
    /\ CacheFrame

\* cache_entry = self._cache.get(cache_key) and self._is_cache_valid(cache_entry)
CacheRead(t) ==
    /\ threads[t].pc = "read"
    /\ threads' = [threads EXCEPT ![t].pc = "leave",
                                  ![t].seen = cache[KeyOf(t)],
                                  ![t].hit = IsCacheValid(cache, KeyOf(t), now)]
    /\ UNCHANGED <<cache, now, cache_lock>>
    /\ CacheFrame

\* self._cache[cache_key] = {"value": result, "timestamp": time.time()}
CacheWrite(t) ==
    /\ threads[t].pc = "write"
    /\ LET entry == [value |-> threads[t].result, timestamp |-> now]
       IN /\ cache' = [cache EXCEPT ![KeyOf(t)] = entry]
          /\ threads' = [threads EXCEPT ![t].pc = "written", ![t].wrote = entry]
    /\ UNCHANGED <<now, cache_lock>>
    /\ CacheFrame

\* the with block is left: a worker returns the cached value or goes on to
\* the request, the scan moves to its next station, a store is followed by
\* the return
Release(t) ==
    /\ threads[t].pc \in {"leave", "written"}
    /\ cache_lock' = NoThread
    /\ threads' =
          IF threads[t].pc = "written" THEN [threads EXCEPT ![t].pc = "done"]
          ELSE IF t = "scan"
               THEN IF threads[t].idx = Len(ScanStations)
                    THEN [threads EXCEPT ![t].pc = "done"]
                    ELSE [threads EXCEPT ![t].pc = "begin",
                                         ![t].idx = threads[t].idx + 1,
                                         ![t].code = ScanStations[threads[t].idx + 1]]
               ELSE IF threads[t].hit
                    THEN [threads EXCEPT ![t].pc = "done", ![t].result = threads[t].seen.value]
                    ELSE [threads EXCEPT ![t].pc = "fetch"]
    /\ UNCHANGED <<cache, now>>
    /\ CacheFrame

\* the request of a worker, outside the lock
Fetch(t, resp) ==
    /\ threads[t].pc = "fetch"
    /\ threads' = [threads EXCEPT ![t].result = FetchResult(resp),
                                  ![t].pc = IF resp.kind = "line" THEN "store" ELSE "done"]
    /\ UNCHANGED <<cache, now, cache_lock>>
    /\ CacheFrame

CacheTick ==
    /\ now < MaxTicks * HalfTimeout
    /\ now' = now + HalfTimeout
    /\ UNCHANGED <<cache, cache_lock, threads>>
    /\ CacheFrame

CacheNext ==
    \/ \E t \in Threads : Acquire(t)
    \/ \E t \in Threads : CacheRead(t)
    \/ \E t \in Threads : CacheWrite(t)
    \/ \E t \in Threads : Release(t)
    \/ \E t \in Threads : \E resp \in CacheResponses : Fetch(t, resp)
    \/ CacheTick

SpecCache == CacheInit /\ [][CacheNext]_vars

\* ------------------------------------------------------------------------
\* Loading the catalog document (SpecLoad): load_lines_from_file on a
\* document of one line, then the planner's _gather_raw_waits on the line.
\* ------------------------------------------------------------------------
MaxStops == 2

\* a key the JSON object does not have
MissingField == "<missing>"

MissingIndex == NONE - 1

StationDocs ==
    {[index |-> i, code |-> c] :
        i \in {MissingIndex} \cup 0..MaxStops, c \in {MissingField, "a"}}

StationListDocs == UNION {[1..k -> StationDocs] : k \in 0..MaxStops}

\* the objects of the "lines" list: code, direction and stations may each
\* be missing, and so may the index and the code of a station
LineDocs ==
    {[code |-> c, direction |-> d, has_stations |-> TRUE, stations |-> sts] :
        c \in {MissingField, "15"}, d \in {MissingField, "0"}, sts \in StationListDocs}
    \cup {[code |-> c, direction |-> d, has_stations |-> FALSE, stations |-> <<>>] :
        c \in {MissingField, "15"}, d \in {MissingField, "0"}}

\* st.get("index", 0)
GetIndex(value) == IF value = MissingIndex THEN 0 ELSE value

\* dict.get(key, "")
GetText(value) == IF value = MissingField THEN "" ELSE value

\* stations_list.sort(key=lambda s: s.index), a stable sort
RECURSIVE InsertByIndex(_, _)
InsertByIndex(st, sorted) ==
    IF sorted = <<>> THEN <<st>>
    ELSE IF Head(sorted).index <= st.index
         THEN <<Head(sorted)>> \o InsertByIndex(st, Tail(sorted))
         ELSE <<st>> \o sorted

RECURSIVE SortByIndex(_, _)
SortByIndex(sts, sorted) ==
    IF sts = <<>> THEN sorted
    ELSE SortByIndex(Tail(sts), InsertByIndex(Head(sts), sorted))

LoadLineData(data) ==
    LET docs == IF data.has_stations THEN data.stations ELSE <<>>
        stations_list == [p \in 1..Len(docs) |->
                             Station(GetText(docs[p].code), GetIndex(docs[p].index))]
    IN [line_code |-> GetText(data.code), direction |-> GetText(data.direction),
        stations |-> SortByIndex(stations_list, <<>>)]

LoadInit ==
    /\ variant = "dest"
    /\ InferIdle
    /\ BatchIdle
    /\ PlanIdle
    /\ ApiIdle /\ CacheIdle /\ RequestIdle
    /\ document \in {<<d>> : d \in LineDocs}
    /\ load_pc = "file" /\ loaded = <<>> /\ to_check = <<>>

LoadFrame == UNCHANGED <<rvars, cvars, req, variant, ivars, bvars, pvars>>

\* lines = [load_line_data(ld) for ld in lines_data]
LoadLinesFromFile ==
    /\ load_pc = "file"
    /\ loaded' = [i \in 1..Len(document) |-> LoadLineData(document[i])]
    /\ load_pc' = "loaded"
    /\ UNCHANGED <<document, to_check>>
    /\ LoadFrame

IndexError == <<"IndexError">>

\* _gather_raw_waits(line, station.index) for the start station at list
\* position p: [line.stations[i] for i in range(candidate_idx, -1, -1)]
GatherRawWaits(l, p) ==
    /\ load_pc = "loaded"
    /\ p <= Len(loaded[l].stations)
    /\ LET line == loaded[l]
           candidate_idx == line.stations[p].index
       IN to_check' = IF candidate_idx >= Len(line.stations) THEN IndexError
                      ELSE StationsToCheck(line, candidate_idx)
    /\ load_pc' = "planned"
    /\ UNCHANGED <<document, loaded>>
    /\ LoadFrame

LoadNext ==
    \/ LoadLinesFromFile
    \/ \E l \in 1..Len(loaded) : \E p \in 1..MaxStops : GatherRawWaits(l, p)

SpecLoad == LoadInit /\ [][LoadNext]_vars

\* ------------------------------------------------------------------------
\* One line of six stops with the boarding stop at index 4 (SpecScenario):
\* plan_trip and best_tram on a feed that answers both polls of the pass
\* with the same five readings.
\* ------------------------------------------------------------------------
ScenarioReadings == {NONE, 2, 3, 5, 8, 9}

\* the readings of the stops 4, 3, 2, 1, 0, boarding stop first
ScenarioSeqs ==
    {<<8, 5, 3, x, y>> : x \in ScenarioReadings, y \in ScenarioReadings}

ScenarioWalks == {0, 4, 9}

\* index of the destination stop, or NONE for no destination
ScenarioDestinations == {NONE, 1, 5}

ScenarioStops == <<"s0", "s1", "s2", "s3", "s4", "s5">>

\* the boarding stop is the last stop but one
ScenarioBoarding == Len(ScenarioStops) - 2

ScenarioLine(walk, destination) ==
    [line_code |-> "15", direction |-> "0",
     stations |-> [p \in 1..Len(ScenarioStops) |->
         [code |-> ScenarioStops[p], index |-> p - 1,
          walking_time |-> IF p - 1 = ScenarioBoarding THEN walk ELSE 0,
          active |-> (p - 1 = ScenarioBoarding),
          is_destination |-> (p - 1 = destination),
          destination_walking_time |-> IF p - 1 = destination THEN MaxDestWalk ELSE 0]]]

ScenarioInit ==
    /\ variant \in {"dest", "threaded"}
    /\ raw_list \in ScenarioSeqs
    /\ est_list = raw_list
    /\ n = 3
    /\ walking_time \in ScenarioWalks
    /\ avg_travel_time = Undefined /\ results = <<>> /\ done = FALSE
    /\ BatchIdle
    /\ \E d \in ScenarioDestinations :
          /\ variant = "threaded" => d = NONE
          /\ lines = <<ScenarioLine(walking_time, d)>>
    /\ cached_plan = NoPlan /\ line_travel_times = <<>>
    /\ pc = "idle" /\ cursor = 0 /\ out = <<>> /\ caller = "plan_trip"
    /\ plan_returned = NoPlan /\ best = NotCalled /\ requests = 0
    /\ tram_lists = <<>>
    /\ ApiIdle /\ CacheIdle /\ LoadIdle /\ RequestIdle

ScenarioFrame ==
    UNCHANGED <<rvars, cvars, lvars, req, variant, est_list, raw_list, n, walking_time, bvars,
                lines, pc, cursor, out, caller, requests, tram_lists>>

\* plan_trip of final_threaded_with_destination.py on the single line
ScenarioPlanTripDest ==
    /\ variant = "dest" /\ ~done
    /\ LET line == lines[1]
           start_station == line.stations[FirstPos(line.stations, IsActive)]
           endPos == FirstPos(line.stations, IsDestination)
           avg == LineTravelTimeFrom(est_list)
           times == [c \in {line.line_code} |-> avg]
           tram_list == FindNTramsDest(times, line.line_code, raw_list, start_station.index,
                                       start_station.walking_time, 3, avg)
           plan == IF endPos # 0
                   THEN LET end_station == line.stations[endPos]
                            total_travel == ComputeTotalTravelTime(
                                times, line.line_code, start_station, end_station)
                        IN <<[line |-> 1, start |-> start_station.index,
                              end |-> end_station.index,
                              trams |-> [j \in 1..Len(tram_list) |->
                                  WithDestination(tram_list[j], total_travel, end_station)]]>>
                   ELSE <<>>
       IN /\ avg_travel_time' = avg
          /\ line_travel_times' = times
          /\ results' = tram_list
          /\ cached_plan' = plan
          /\ plan_returned' = plan
    /\ done' = TRUE
    /\ UNCHANGED best
    /\ ScenarioFrame

\* plan_trip of final_threaded.py on the single line
ScenarioPlanTripThreaded ==
    /\ variant = "threaded" /\ ~done
    /\ LET line == lines[1]
           start_station == line.stations[FirstPos(line.stations, IsActive)]
           avg == ComputeAverageTravelTime(raw_list)
           tram_list == FindNTrams(raw_list, start_station.index,
                                   start_station.walking_time, 3, avg)
           plan == <<[line |-> 1, start |-> start_station.index, end |-> NONE,
                      trams |-> [j \in 1..Len(tram_list) |->
                          WithoutDestination(tram_list[j])]]>>
       IN /\ avg_travel_time' = avg
          /\ results' = tram_list
          /\ cached_plan' = plan
          /\ plan_returned' = plan
    /\ done' = TRUE
    /\ UNCHANGED <<best, line_travel_times>>
    /\ ScenarioFrame

\* best_tram on the cached plan
ScenarioBestTram ==
    /\ done /\ best.station_line = NotCalled.station_line
    /\ best' = BestTramOf(variant, cached_plan)
    /\ UNCHANGED <<avg_travel_time, results, done, cached_plan, plan_returned,
                   line_travel_times>>
    /\ ScenarioFrame

ScenarioNext == ScenarioPlanTripDest \/ ScenarioPlanTripThreaded \/ ScenarioBestTram

SpecScenario == ScenarioInit /\ [][ScenarioNext]_vars

\* ------------------------------------------------------------------------
\* The request validation of POST /plan (SpecRequest): bodies with any of
\* the keys candidates, start_candidates and end_candidates, whose items
\* may lack walking_time. The planning behind a valid body is SpecApi's.
\* ------------------------------------------------------------------------
MaxCandidates == 2

\* walking_time of an item without that key
NoWalkingTime == NONE - 1

CandidateItems ==
    {[line_code |-> "15", direction |-> "0", target_station_code |-> "15371",
      walking_time |-> w] : w \in {NoWalkingTime, 8}}

CandidateLists ==
    {AbsentList} \cup
    {[present |-> TRUE, items |-> l] :
        l \in UNION {[1..k -> CandidateItems] : k \in 0..MaxCandidates}}

RequestBodies ==
    {[candidates |-> c, start_candidates |-> s, end_candidates |-> e] :
        c \in CandidateLists, s \in CandidateLists, e \in CandidateLists}

RequestInit ==
    /\ variant = "dest"
    /\ InferIdle
    /\ BatchIdle
    /\ PlanIdle
    /\ ApiIdle /\ CacheIdle /\ LoadIdle
    /\ request_body \in RequestBodies
    /\ response = NoResponse

\* "not data": the JSON object has no key at all
IsEmptyObject(data) ==
    ~data.candidates.present /\ ~data.start_candidates.present
    /\ ~data.end_candidates.present

\* c['walking_time'] raises KeyError
RaisesKeyError(list) ==
    \E i \in 1..Len(list.items) : list.items[i].walking_time = NoWalkingTime

\* the handler of POST /plan: 400 for a body without start_candidates or
\* end_candidates, 500 for an exception in the conversion, 200 otherwise
PlanResponseFor(data) ==
    IF IsEmptyObject(data) \/ ~data.start_candidates.present
       \/ ~data.end_candidates.present
    THEN [status |-> 400, keys |-> {"error"}]
    ELSE IF RaisesKeyError(data.start_candidates) \/ RaisesKeyError(data.end_candidates)
    THEN [status |-> 500, keys |-> {"error"}]
    ELSE [status |-> 200, keys |-> {"execution_time", "feasible_options", "best_option"}]

HandlePlan ==
    /\ response = NoResponse
    /\ response' = PlanResponseFor(request_body)
    /\ UNCHANGED <<request_body, cvars, lvars, req, variant, ivars, bvars, pvars>>

RequestNext == HandlePlan

SpecRequest == RequestInit /\ [][RequestNext]_vars

\* ------------------------------------------------------------------------
\* Properties of get_waiting_times_batch (checked under SpecBatch)
\* ------------------------------------------------------------------------
\* C7: the list returned by get_waiting_times_batch has the length of the
\* input and position i holds the reading of input stop i, for every
\* completion order, every set of failed fetches and every mix of cache
\* hits and misses.
C7_BatchKeepsOrder ==
    batch_pc = "returned" =>
        /\ Len(batch_results) = Len(stations)
        /\ \A i \in 1..Len(stations) : batch_results[i] = reading_of[i]

\* a cache hit in front of a fetched position, with different readings
C7_Witness ==
    /\ batch_pc = "returned" /\ variant = "dest"
    /\ Len(stations) = 2
    /\ station_indices = <<2>>
    /\ outcome_of = <<"cache", "line">>
    /\ batch_results[1] # batch_results[2]
    /\ batch_results[2] # NONE

\* C8: a fetch that fails for one stop makes exactly that position None
\* and leaves every other position with the reading of its own fetch; the
\* batch still returns.
C8_FailureStaysLocal ==
    batch_pc = "returned" =>
        \A i \in 1..Len(stations) :
            outcome_of[i] = "failed" =>
                /\ batch_results[i] = NONE
                /\ \A j \in 1..Len(stations) :
                      outcome_of[j] # "failed" => batch_results[j] = reading_of[j]

\* one fetch failed, the other position of the batch has its own reading
C8_Witness ==
    /\ batch_pc = "returned"
    /\ Len(stations) = 2
    /\ outcome_of[1] = "failed" /\ outcome_of[2] = "line"
    /\ batch_results[1] = NONE /\ batch_results[2] \in 0..1

\* the entry of the stop's key was stored less than the time-to-live ago
Fresh(code) ==
    LET e == cache[CacheKey(code, BatchLineCode)]
    IN e # NoEntry /\ now - e.timestamp < 60

EntryValue(code) == cache[CacheKey(code, BatchLineCode)].value

\* position i of the batch has a call submitted to the pool
Submitted(i) == \E k \in 1..Len(stations_to_fetch') : stations_to_fetch'[k].pos = i

\* the scan of a batch over sts: fresh entries are served and not
\* submitted, all other positions are submitted
ScanByFreshness(sts) ==
    \A i \in 1..Len(sts) :
        IF Fresh(sts[i])
        THEN /\ outcome_of'[i] = "cache" /\ batch_results'[i] = EntryValue(sts[i])
             /\ ~Submitted(i)
        ELSE /\ outcome_of'[i] = "pending" /\ Submitted(i)

\* the lookup of the submitted call k: a fresh entry is returned without a
\* request, otherwise the request is made
LookupByFreshness(k) ==
    LET st == stations_to_fetch[k]
    IN IF Fresh(st.code)
       THEN /\ futures'[k].state = "done" /\ futures'[k].result = EntryValue(st.code)
            /\ outcome_of'[st.pos] = "cache"
       ELSE /\ futures'[k].state = "running" /\ outcome_of'[st.pos] = "pending"

\* C18: a reading is served from the cache only if its entry was stored
\* less than 60 s before the lookup; with such an entry no fetch is issued
\* for the stop, and with an absent or expired entry a fetch is issued.
C18_ServedOnlyWhenFresh ==
    [][variant = "dest" =>
          /\ \A sts \in StationLists : BatchStart(sts) => ScanByFreshness(sts)
          /\ \A k \in 1..Len(futures) : WorkerStart(k) => LookupByFreshness(k)]_vars

\* at the same lookup time the entry of b, 30 s old, is served while the
\* entry of a, exactly 60 s old, is fetched again
C18_Witness ==
    /\ variant = "dest" /\ batch_pc = "pool"
    /\ stations = <<"a", "b">>
    /\ outcome_of = <<"pending", "cache">>
    /\ futures[1].state = "running"
    /\ cache[CacheKey("a", BatchLineCode)] # NoEntry
    /\ now - cache[CacheKey("a", BatchLineCode)].timestamp = cache_timeout
    /\ now - cache[CacheKey("b", BatchLineCode)].timestamp = HalfTimeout

\* what the fetch of the submitted call k does to the cache: a response
\* with the line code stores the parsed wait message under the stop's key
\* and touches no other key; every other response leaves the cache alone
StoresOnlyParsed(k, resp) ==
    LET key == CacheKey(stations_to_fetch[k].code, BatchLineCode)
    IN IF resp.kind = "line"
       THEN /\ cache'[key] = [value |-> ParseWaitMessage(resp.msg), timestamp |-> now]
            /\ \A other \in Keys \ {key} : cache'[other] = cache[other]
       ELSE cache' = cache

\* a step that changes the cache is the fetch of a response with the line code
OnlyLineFetchStores ==
    cache' # cache =>
        \E k \in 1..Len(futures) : \E resp \in Responses :
            resp.kind = "line" /\ WorkerFetch(k, resp)

\* C28: the cache holds, for a key (stop, line), only the value parsed
\* from the wait message of a response that contained the line code
\* (possibly unavailable); a result that is unavailable because of a
\* transport error, a malformed payload or a missing line code is never
\* stored, so the stop is not a cache hit for the next lookup.
C28_OnlySuccessfulFetchesCached ==
    [][variant = "dest" =>
         /\ OnlyLineFetchStores
         /\ \A k \in 1..Len(futures) : \A resp \in Responses :
               WorkerFetch(k, resp) => StoresOnlyParsed(k, resp)]_vars

\* a batch over two stops has returned: the fetch of stop a failed and
\* left no entry, the fetch of stop b parsed to unavailable and is stored
C28_Witness ==
    /\ variant = "dest" /\ batch_pc = "returned"
    /\ stations = <<"a", "b">>
    /\ outcome_of = <<"failed", "line">>
    /\ cache[CacheKey("a", BatchLineCode)] = NoEntry
    /\ cache[CacheKey("b", BatchLineCode)] = [value |-> NONE, timestamp |-> now]
    /\ ~IsCacheValid(cache, CacheKey("a", BatchLineCode), now)
    /\ IsCacheValid(cache, CacheKey("b", BatchLineCode), now)

\* ------------------------------------------------------------------------
\* Properties of the inference engine (checked under SpecInfer)
\* ------------------------------------------------------------------------
NTramVariants == {"dest", "threaded", "final"}

\* positions (1-based) whose value is strictly greater than the one before
Jumps(numeric) == {i \in 2..Len(numeric) : numeric[i] > numeric[i - 1]}

\* C1: for every non-empty reading sequence and N in {2,3}, segmentation
\* returns at least 1 and at most N vehicles whose station_idx are strictly
\* decreasing in the order returned and lie within 0..boarding.index.
C1_SegmentationBounds ==
    (done /\ variant \in NTramVariants) =>
        /\ Len(results) >= 1
        /\ Len(results) <= n
        /\ \A k \in 1..Len(results) : results[k].station_idx \in 0..Cidx
        /\ \A k \in 1..(Len(results) - 1) :
              results[k].station_idx > results[k + 1].station_idx

\* the cap N bites: more jumps in the sequence than vehicles returned
C1_Witness ==
    /\ done /\ variant = "dest" /\ n = 3
    /\ Len(results) = 3
    /\ Cardinality(Jumps(Numeric(raw_list))) >= 3

\* the positions the segmentation rule reports: position 1 and the first
\* N-1 jumps
Reported(numeric, k) ==
    {1} \cup {i \in Jumps(numeric) :
                 Cardinality({j \in Jumps(numeric) : j < i}) < k - 1}

KthOf(S, k) == CHOOSE i \in S : Cardinality({j \in S : j < i}) = k - 1

\* C2: with unavailable readings replaced by 0, position 0 is vehicle #1
\* and, until N vehicles are collected, a later position is a new vehicle
\* iff its value is strictly greater than the value before it; each vehicle
\* carries raw_wait = value at i and station_idx = boarding.index - i.
C2_SegmentationRule ==
    (done /\ variant \in NTramVariants) =>
        LET numeric == [i \in 1..Len(raw_list) |->
                           IF raw_list[i] \in 0..MaxWait THEN raw_list[i] ELSE 0]
            R == Reported(numeric, n)
        IN /\ Len(results) = Cardinality(R)
           /\ \A k \in 1..Len(results) :
                 /\ results[k].station_idx = Cidx - (KthOf(R, k) - 1)
                 /\ results[k].raw_wait = numeric[KthOf(R, k)]

C2_Witness ==
    /\ done /\ variant = "final"
    /\ Len(results) = 2
    /\ \E i \in 2..Len(raw_list) : raw_list[i] = raw_list[i - 1]
    /\ \E i \in 2..Len(raw_list) : raw_list[i] = NONE /\ raw_list[i - 1] = 0
    /\ \E i \in 2..Len(raw_list) : raw_list[i - 1] = NONE /\ raw_list[i] > 0

FloorTravelTime == 2

\* C3 (as claimed): every data-driven estimator returns a defined estimate
\* that is at least the floor of 2 minutes per stop.
C3_EstimateAtLeastFloor ==
    (done /\ variant \in NTramVariants) =>
        /\ avg_travel_time.den > 0
        /\ avg_travel_time.num >= FloorTravelTime * avg_travel_time.den

\* length of the maximal non-increasing run that starts at position 1
RunLen(numeric) ==
    CHOOSE k \in 1..Len(numeric) :
        /\ \A i \in 1..(k - 1) : numeric[i + 1] <= numeric[i]
        /\ (k < Len(numeric) => numeric[k + 1] > numeric[k])

\* the mean of the consecutive differences over the run is
\* (first - last) / (number of differences); stated as num/den = mean
IsMeanOfRun(x, numeric) ==
    LET k == RunLen(numeric) IN
    x.num * (k - 1) = (numeric[1] - numeric[k]) * x.den

MeanPositive(numeric) ==
    RunLen(numeric) > 1 /\ numeric[1] - numeric[RunLen(numeric)] > 0

MeanAtLeastFloor(numeric) ==
    LET k == RunLen(numeric) IN
    k > 1 /\ numeric[1] - numeric[k] >= FloorTravelTime * (k - 1)

IsFloor(x) == x.den > 0 /\ x.num = FloorTravelTime * x.den

\* C4 (as claimed): the estimate is the mean of the differences over the
\* maximal non-increasing run whenever the run has a difference and the
\* mean is positive, and the floor 2 otherwise, for _compute_line_travel_time
\* and for _compute_average_travel_time (final_threaded.py).
C4_EstimateIsMeanWhenPositive ==
    (done /\ variant \in {"dest", "threaded"}) =>
        LET numeric == Numeric(est_list) IN
        IF MeanPositive(numeric)
        THEN avg_travel_time.den > 0 /\ IsMeanOfRun(avg_travel_time, numeric)
        ELSE IsFloor(avg_travel_time)

\* C4 (amended): _compute_average_travel_time (final_threaded.py) returns
\* the mean when it is positive and 2 otherwise; _compute_line_travel_time
\* returns the mean only when the mean is at least 2 and the floor 2 in
\* every other case.
C4_EstimateIsMeanOrFloor ==
    (done /\ variant \in {"dest", "threaded"}) =>
        LET numeric == Numeric(est_list)
            useMean == IF variant = "dest" THEN MeanAtLeastFloor(numeric)
                                         ELSE MeanPositive(numeric)
        IN IF useMean
           THEN avg_travel_time.den > 0 /\ IsMeanOfRun(avg_travel_time, numeric)
           ELSE IsFloor(avg_travel_time)

\* the clamp of _compute_line_travel_time acts: a positive mean below 2
C4_Witness ==
    /\ done /\ variant = "dest"
    /\ MeanPositive(Numeric(est_list))
    /\ ~MeanAtLeastFloor(Numeric(est_list))
    /\ IsFloor(avg_travel_time)

\* C6: for every vehicle, feasible is true iff arrival >= walking_time;
\* wait_at_stop = arrival - walking_time exactly when feasible and is
\* undefined exactly when not feasible.
C6_FeasibleAndWait ==
    done =>
        \A k \in 1..Len(results) :
            LET r == results[k] IN
            /\ r.arrival.den > 0
            /\ r.feasible = (r.arrival.num >= walking_time * r.arrival.den)
            /\ r.feasible =>
                  /\ r.wait_at_stop.den > 0
                  /\ r.wait_at_stop.num * r.arrival.den =
                       (r.arrival.num - walking_time * r.arrival.den) * r.wait_at_stop.den
            /\ ~r.feasible => r.wait_at_stop = Undefined

\* one vehicle arrives exactly at the walking time, another one too early
C6_Witness ==
    /\ done /\ variant = "dest" /\ walking_time > 0
    /\ \E k \in 1..Len(results) :
          results[k].feasible /\ results[k].wait_at_stop = RInt(0)
    /\ \E k \in 1..Len(results) : ~results[k].feasible


AllUnavailable == \A i \in 1..Len(raw_list) : raw_list[i] = NONE

\* C22: when every reading of the sequence is unavailable, exactly one
\* vehicle is inferred, with raw_wait 0 and arrival 0, and it is feasible
\* iff the boarding walking time is 0.
C22_AllUnavailableOneVehicle ==
    (done /\ variant \in {"dest", "threaded"} /\ AllUnavailable) =>
        /\ Len(results) = 1
        /\ results[1].raw_wait = 0
        /\ results[1].arrival = RInt(0)
        /\ results[1].feasible <=> (walking_time = 0)

\* several stops, all without a reading, and a walk that cannot be made
C22_Witness ==
    /\ done /\ variant = "dest" /\ AllUnavailable
    /\ Len(raw_list) > 1 /\ walking_time > 0
    /\ Len(results) = 1 /\ ~results[1].feasible

\* the differences of the run in which a pair with an unavailable reading
\* is compared as 0 but contributes nothing
RECURSIVE AvailableDiffLoop(_, _, _)
AvailableDiffLoop(raw, i, differences) ==
    LET numeric == [j \in 1..Len(raw) |-> IF raw[j] \in 0..MaxWait THEN raw[j] ELSE 0] IN
    IF i > Len(raw) - 1 THEN differences
    ELSE IF numeric[i + 1] > numeric[i] THEN differences
    ELSE AvailableDiffLoop(raw, i + 1,
             IF raw[i] \in 0..MaxWait /\ raw[i + 1] \in 0..MaxWait
             THEN Append(differences, raw[i] - raw[i + 1])
             ELSE differences)

\* x is the estimate the variant's rule gives for these differences
IsEstimateOf(x, differences, which) ==
    LET total == SumSeq(differences)
        k == Len(differences)
        useMean == IF which = "dest" THEN k > 0 /\ total >= FloorTravelTime * k
                                     ELSE k > 0 /\ total > 0
    IN IF useMean THEN x.den > 0 /\ x.num * k = total * x.den ELSE IsFloor(x)

\* the reading a vehicle's raw_wait was taken from
ReadingOf(tram) == raw_list[Cidx - tram.station_idx + 1]

\* C23: an unavailable reading counts as 0 only in the segmentation
\* comparison: it contributes no difference to the travel-time estimate
\* and is never the raw_wait of an inferred vehicle.
C23_UnavailableOnlyForComparison ==
    (done /\ variant \in {"dest", "threaded"}) =>
        /\ IsEstimateOf(avg_travel_time, AvailableDiffLoop(est_list, 1, <<>>), variant)
        /\ \A k \in 1..Len(results) : ReadingOf(results[k]) # NONE

\* with every reading available the estimate is the one of the differences
\* and every vehicle's raw_wait is a reading
AvailableReadingsAreUsed ==
    (done /\ variant \in {"dest", "threaded"} /\ \A i \in 1..Len(raw_list) : raw_list[i] # NONE) =>
        /\ IsEstimateOf(avg_travel_time, AvailableDiffLoop(est_list, 1, <<>>), variant)
        /\ \A k \in 1..Len(results) : ReadingOf(results[k]) = results[k].raw_wait

\* C29: when segmentation finds a second vehicle, with the travel-time
\* estimate computed from the same reading sequence, the second vehicle
\* arrives at the boarding stop strictly later than the first.
C29_SecondVehicleArrivesLater ==
    (done /\ variant \in NTramVariants /\ Len(results) >= 2) =>
        RLess(results[1].arrival, results[2].arrival)

\* the second vehicle's own countdown is smaller than the first one's:
\* readings [3, 1, 2], vehicles at the boarding stop and two stops before
C29_Witness ==
    /\ done /\ variant = "dest"
    /\ raw_list = <<3, 1, 2>>
    /\ Len(results) = 2
    /\ results[1].raw_wait = 3 /\ results[2].raw_wait = 2
    /\ results[2].station_idx = Cidx - 2
    /\ RLess(results[1].arrival, results[2].arrival)

\* the vehicles the rule "first position strictly greater than the one
\* before it" gives: vehicle #1 at the boarding stop and, if there is such
\* a position, vehicle #2 there
FollowsFirstJump(res) ==
    LET numeric == [i \in 1..Len(raw_list) |->
                       IF raw_list[i] \in 0..MaxWait THEN raw_list[i] ELSE 0]
        J == Jumps(numeric)
    IN /\ Len(res) = IF J = {} THEN 1 ELSE 2
       /\ res[1].station_idx = Cidx /\ res[1].raw_wait = numeric[1]
       /\ J # {} =>
             LET i == CHOOSE i \in J : \A j \in J : i <= j
             IN res[2].station_idx = Cidx - (i - 1) /\ res[2].raw_wait = numeric[i]

\* C25: find_two_trams of delta.py and _find_two_trams_increment of
\* epsilon.py return the same vehicles for the same readings, boarding
\* index and walking time, both placing the second vehicle at the first
\* position strictly greater than the position before it.
C25_TwoTramVariantsAgree ==
    (done /\ variant \in {"delta", "epsilon"}) =>
        /\ results = FindTwoTrams(raw_list, Cidx, walking_time, travel_time_between_stations)
        /\ results = FindTwoTramsIncrement(raw_list, Cidx, walking_time,
                                           travel_time_between_stations)
        /\ FollowsFirstJump(results)

\* epsilon.py follows the rule
EpsilonFollowsFirstJump == (done /\ variant = "epsilon") => FollowsFirstJump(results)

\* ------------------------------------------------------------------------
\* Properties of plan_trip and best_tram (checked under Spec)
\* ------------------------------------------------------------------------
Boarded(i) == FirstPos(lines[i].stations, IsActive) # 0

HasDestination(i) == FirstPos(lines[i].stations, IsDestination) # 0

HasEntry(plan, i) == \E p \in 1..Len(plan) : plan[p].line = i

EntryOf(plan, i) == plan[CHOOSE p \in 1..Len(plan) : plan[p].line = i]

\* C5: every vehicle _find_n_trams_increment returned for a line has
\* arrival = raw_wait + (boarding.index - station_idx) * E, with E the
\* estimate reported as avg_travel_time on that vehicle
C5_ArrivalFromEstimate ==
    \A k \in 1..Len(tram_lists) :
        \A j \in 1..Len(tram_lists[k].trams) :
            LET t == tram_lists[k].trams[j]
            IN t.arrival = RAdd(RInt(t.raw_wait),
                                RMulInt(tram_lists[k].start - t.station_idx,
                                        t.avg_travel_time))

\* a vehicle found behind the boarding stop, with an estimate above the
\* default of 2 minutes
C5_Witness ==
    /\ variant = "dest"
    /\ \E k \in 1..Len(tram_lists) :
          \E j \in 1..Len(tram_lists[k].trams) :
              LET t == tram_lists[k].trams[j]
              IN /\ t.station_idx < tram_lists[k].start
                 /\ RLess(RInt(2), t.avg_travel_time)
                 /\ t.raw_wait > 0

\* plan_trip returns a plan it has just computed
FreshPlanReturned == pc = "line" /\ pc' = "idle"

EntryIffBoarded ==
    \A i \in 1..Len(lines) :
        /\ HasEntry(plan_returned, i) <=> Boarded(i)
        /\ (HasEntry(plan_returned, i) /\ ~HasDestination(i)) =>
              \A j \in 1..Len(EntryOf(plan_returned, i).trams) :
                  LET t == EntryOf(plan_returned, i).trams[j]
                  IN /\ t.total_travel_time = Undefined
                     /\ t.final_walking_time = NONE
                     /\ t.total_time = Undefined

\* C9: the mapping plan_trip returns has an entry for a line exactly when
\* the line has a boarding stop marked; the vehicles of a line without a
\* destination stop have no destination fields
C9_EntryIffBoarded == [][FreshPlanReturned => EntryIffBoarded']_vars

\* the key best_tram is to compare: total_time on a line with a destination,
\* arrival on a line without
KeyOnLine(i, tram_total_time, tram_arrival) ==
    IF variant = "dest" /\ HasDestination(i) THEN tram_total_time ELSE tram_arrival

BestKey == KeyOnLine(best.station_line, best.tram.total_time, best.tram.arrival)

VehicleKey(k, j) ==
    LET i == tram_lists[k].line
    IN KeyOnLine(i,
                 IF HasEntry(cached_plan, i)
                 THEN EntryOf(cached_plan, i).trams[j].total_time
                 ELSE Undefined,
                 tram_lists[k].trams[j].arrival)

BestIsMinimal(k, j) ==
    /\ best.station_line # NoBest.station_line
    /\ best.tram.feasible
    /\ RLeq(BestKey, VehicleKey(k, j))
    /\ VehicleKey(k, j) = BestKey => best.station_line <= tram_lists[k].line

BestAmongFeasible ==
    \A k \in 1..Len(tram_lists) :
        \A j \in 1..Len(tram_lists[k].trams) :
            tram_lists[k].trams[j].feasible => BestIsMinimal(k, j)

\* best_tram returns, having called plan_trip for a new plan
FreshBestReturned == FreshPlanReturned /\ caller = "best_tram"

\* C10: what best_tram returns is, among the feasible vehicles of all the
\* lines with a boarding stop, one with the least key (total_time with a
\* destination on its line, arrival without), the earliest line winning a tie
C10_BestAmongBoardedLines == [][FreshBestReturned => BestAmongFeasible']_vars

AllBoardedInPlan == \A i \in 1..Len(lines) : Boarded(i) => HasEntry(cached_plan, i)

\* the same, for the passes in which every line with a boarding stop is in
\* the plan
BestAmongPlanEntries ==
    [][(FreshBestReturned /\ AllBoardedInPlan') => BestAmongFeasible']_vars

\* two lines in the plan with feasible vehicles of equal key
BestTieReached ==
    /\ best.station_line > 0
    /\ AllBoardedInPlan
    /\ \E k \in 1..Len(tram_lists) :
          \E j \in 1..Len(tram_lists[k].trams) :
              /\ tram_lists[k].trams[j].feasible
              /\ tram_lists[k].line > best.station_line
              /\ VehicleKey(k, j) = BestKey


SomeFeasible ==
    \E k \in 1..Len(tram_lists) :
        \E j \in 1..Len(tram_lists[k].trams) : tram_lists[k].trams[j].feasible

NoneIffNoneFeasible ==
    /\ best.station_line = NoBest.station_line <=> ~SomeFeasible
    /\ best.station_line # NoBest.station_line => best.tram.feasible

\* C11: best_tram returns None exactly when no vehicle of any line with a
\* boarding stop is feasible, and never a vehicle that is not feasible
C11_NoneIffNoneFeasible == [][FreshBestReturned => NoneIffNoneFeasible']_vars

\* the same, for the passes in which every line with a boarding stop is in
\* the plan
NoneIffNoPlanEntryFeasible ==
    [][(FreshBestReturned /\ AllBoardedInPlan') => NoneIffNoneFeasible']_vars

\* best_tram never returns a vehicle that is not feasible
BestIsFeasible ==
    (best.station_line # NotCalled.station_line /\ best.station_line # NoBest.station_line)
        => best.tram.feasible

StartOf(i) == lines[i].stations[FirstPos(lines[i].stations, IsActive)]

EndOf(i) == lines[i].stations[FirstPos(lines[i].stations, IsDestination)]

TotalsOfLine(i) ==
    \A j \in 1..Len(EntryOf(plan_returned, i).trams) :
        LET t == EntryOf(plan_returned, i).trams[j]
        IN /\ t.total_travel_time =
                 RMulInt(EndOf(i).index - StartOf(i).index, t.avg_travel_time)
           /\ t.final_walking_time = EndOf(i).destination_walking_time
           /\ t.total_time = RAdd(RAdd(t.arrival, t.total_travel_time),
                                  RInt(EndOf(i).destination_walking_time))

TotalsFromEstimate ==
    \A i \in 1..Len(lines) :
        (Boarded(i) /\ HasDestination(i) /\ HasEntry(plan_returned, i)) => TotalsOfLine(i)

\* C12: on a line with a boarding and a destination stop every vehicle of the
\* plan has total_travel_time = (destination.index - boarding.index) * E, E
\* being the estimate of its arrival, and total_time = arrival +
\* total_travel_time + destination_walking_time
C12_TotalsFromEstimate ==
    [][(FreshPlanReturned /\ variant = "dest") => TotalsFromEstimate']_vars

Inverted(i) ==
    /\ Boarded(i) /\ HasDestination(i)
    /\ EndOf(i).index < StartOf(i).index

\* the same, for the lines whose destination is not before the boarding stop
TotalsOnForwardLines ==
    [][(FreshPlanReturned /\ variant = "dest") =>
          (\A i \in 1..Len(lines) :
              (Boarded(i) /\ HasDestination(i) /\ ~Inverted(i)
               /\ HasEntry(plan_returned, i)) => TotalsOfLine(i))']_vars

\* a plan with a vehicle found behind the boarding stop on a line whose
\* destination lies after it
ForwardTotalsReached ==
    /\ variant = "dest" /\ plan_returned # NoPlan
    /\ \E i \in 1..Len(lines) :
          /\ Boarded(i) /\ HasDestination(i) /\ ~Inverted(i)
          /\ HasEntry(plan_returned, i)
          /\ EndOf(i).index > StartOf(i).index
          /\ EntryOf(plan_returned, i).start = StartOf(i).index
          /\ \E j \in 1..Len(EntryOf(plan_returned, i).trams) :
                RLess(RInt(2), EntryOf(plan_returned, i).trams[j].avg_travel_time)

NoJourneyOnInverted ==
    \A i \in 1..Len(lines) :
        Inverted(i) =>
            /\ HasEntry(plan_returned, i) =>
                  \A j \in 1..Len(EntryOf(plan_returned, i).trams) :
                      EntryOf(plan_returned, i).trams[j].total_time = Undefined
            /\ best.station_line # i

\* C13: for a line whose destination stop lies before its boarding stop
\* plan_trip yields no vehicle with a total_time, and best_tram never
\* returns a vehicle of that line
C13_NoJourneyOnInverted ==
    [][(FreshPlanReturned /\ variant = "dest") => NoJourneyOnInverted']_vars


\* a plan_trip or best_tram call that returns at once: the planner is idle
\* before and after, and no markings were written
CachedPlanReturned ==
    pc = "idle" /\ pc' = "idle" /\ requests' = requests /\ cached_plan # NoPlan

EntryMatchesMarkings(i) ==
    LET entry == EntryOf(plan_returned, i)
    IN /\ Boarded(i)
       /\ entry.start = StartOf(i).index
       /\ \A j \in 1..Len(entry.trams) : entry.trams[j].walk_time = StartOf(i).walking_time
       /\ variant = "dest" =>
             /\ HasDestination(i)
             /\ entry.end = EndOf(i).index
             /\ \A j \in 1..Len(entry.trams) :
                   entry.trams[j].final_walking_time = EndOf(i).destination_walking_time

\* the plan returned is the one the present markings give: its entries are
\* those of the lines with a boarding stop (and, in
\* final_threaded_with_destination.py, a destination stop), built from these
\* stops
PlanMatchesMarkings ==
    \A i \in 1..Len(lines) :
        /\ HasEntry(plan_returned, i) => EntryMatchesMarkings(i)
        /\ (Boarded(i) /\ (variant = "dest" => HasDestination(i)))
              => HasEntry(plan_returned, i)

\* C15: a plan_trip call made after update_lines_with_candidates changed
\* the markings returns a plan computed from the new markings, never the
\* plan of an earlier pass
C15_PlanFollowsMarkings == [][CachedPlanReturned => PlanMatchesMarkings']_vars

\* the plan of a pass that has just run is the one of the present markings
FreshPlanMatchesMarkings == [][FreshPlanReturned => PlanMatchesMarkings']_vars

\* the second poll of a line in a pass of final_threaded_with_destination.py
\* returns and the line's vehicles are computed
GatherStep == variant = "dest" /\ pc = "gather" /\ pc' = "line"

\* C26: within a pass the estimate and the segmentation of a line are
\* computed from the same readings: the list _compute_line_travel_time
\* used equals the list _find_n_trams_increment used, also when a fetch
\* fails or a cache entry expires between the two polls.
C26_OneReadingPerStop == [][GatherStep => raw_list' = est_list]_vars

\* the same, for the lines whose estimate was polled in this pass
PolledListsAgree == [][(GatherStep /\ est_list # <<>>) => raw_list' = est_list]_vars

\* every stop polled for the estimate still has its valid cache entry
AllStillCached ==
    LET line == lines[cursor]
        codes == StationsToCheck(line, line.stations[StartPos].index)
    IN /\ est_list # <<>>
       /\ \A k \in 1..Len(codes) :
             /\ cache[CacheKey(codes[k], line.line_code)] # NoEntry
             /\ now - cache[CacheKey(codes[k], line.line_code)].timestamp < cache_timeout

\* the two polls agree when the cache still answers for every stop
CachedListsAgree == [][(GatherStep /\ AllStillCached) => raw_list' = est_list]_vars

\* the estimate of the line under the cursor from its own readings: the
\* list polled for the estimate, or the list of the line's own poll when
\* no estimate was polled for it
OwnEstimate == LineTravelTimeFrom(IF est_list # <<>> THEN est_list ELSE raw_list')

\* the vehicles just computed for the line use x as the estimate
VehiclesUse(x) ==
    LET tl == tram_lists'[Len(tram_lists')]
    IN /\ \A j \in 1..Len(tl.trams) :
             tl.trams[j].arrival = RAdd(RInt(tl.trams[j].raw_wait),
                                        RMulInt(tl.start - tl.trams[j].station_idx, x))
       /\ Len(out') > Len(out) =>
             LET entry == out'[Len(out')]
             IN \A j \in 1..Len(entry.trams) :
                   entry.trams[j].total_travel_time =
                       IF entry.start > entry.end THEN RInt(0)
                       ELSE RMulInt(entry.end - entry.start, x)

\* C27: the arrival and total_travel_time of a Line are computed with the
\* estimate derived from that Line's own stops, also when another Line
\* with the same line code was estimated before it.
C27_EstimatePerLine == [][GatherStep => VehiclesUse(OwnEstimate)]_vars

\* the vehicles use the estimate stored under the line code
VehiclesUseStoredEstimate ==
    [][GatherStep => VehiclesUse(line_travel_times[lines[cursor].line_code])]_vars

\* ------------------------------------------------------------------------
\* Properties of update_lines_with_candidates (checked under SpecUpdate)
\* ------------------------------------------------------------------------
ActiveStops(i) == {p \in 1..Len(lines[i].stations) : lines[i].stations[p].active}

DestinationStops(i) ==
    {p \in 1..Len(lines[i].stations) : lines[i].stations[p].is_destination}

\* C14: after any sequence of update_lines_with_candidates calls every line
\* has at most one stop with active = true and at most one stop with
\* is_destination = true
C14_AtMostOneMarking ==
    \A i \in 1..Len(lines) :
        /\ Cardinality(ActiveStops(i)) <= 1
        /\ Cardinality(DestinationStops(i)) <= 1

\* the candidate c names the stop st of the line
Names(c, line, st) ==
    /\ c # NoCandidate
    /\ c.direction = line.direction
    /\ c.target_station_code = st.code

\* what one call may change on the stop at position p of line i
StopAfterUpdate(i, p, start_candidates, end_candidates) ==
    LET line == lines[i]
        old == line.stations[p]
        new == lines'[i].stations[p]
        sc == start_candidates[line.line_code]
        ec == end_candidates[line.line_code]
    IN /\ new.code = old.code /\ new.index = old.index
       /\ IF Names(sc, line, old)
          THEN new.active /\ new.walking_time = sc.walking_time
          ELSE new.active = old.active /\ new.walking_time = old.walking_time
       /\ IF Names(ec, line, old)
          THEN new.is_destination /\ new.destination_walking_time = ec.walking_time
          ELSE /\ new.is_destination = old.is_destination
               /\ new.destination_walking_time = old.destination_walking_time

MarksOnlyTargets(start_candidates, end_candidates) ==
    /\ Len(lines') = Len(lines)
    /\ \A i \in 1..Len(lines) :
          /\ lines'[i].line_code = lines[i].line_code
          /\ lines'[i].direction = lines[i].direction
          /\ Len(lines'[i].stations) = Len(lines[i].stations)
          /\ \A p \in 1..Len(lines[i].stations) :
                StopAfterUpdate(i, p, start_candidates, end_candidates)

\* C19: update_lines_with_candidates marks only the stop named by the
\* mapping of its kind, on the line with the mapping's code and direction;
\* every other stop and line keeps its markings and walking times, and the
\* two mappings act independently
C19_MarksOnlyTargets ==
    [][\A s \in [LineCodes -> UpdateStartCandidates] :
          \A e \in [LineCodes -> UpdateEndCandidates] :
              Update(s, e) => MarksOnlyTargets(s, e)]_vars

\* one direction of line 15 has a boarding stop and no destination, the
\* other direction a destination and no boarding stop
C19_Witness ==
    /\ requests > 0
    /\ \E i, j \in 1..Len(lines) :
          /\ lines[i].line_code = lines[j].line_code
          /\ lines[i].direction # lines[j].direction
          /\ ActiveStops(i) # {} /\ DestinationStops(i) = {}
          /\ ActiveStops(j) = {} /\ DestinationStops(j) # {}
          /\ \E p \in ActiveStops(i) : lines[i].stations[p].walking_time = MaxPlanWalk


\* ------------------------------------------------------------------------
\* Properties of the HTTP front end (checked under SpecApi)
\* ------------------------------------------------------------------------
InUpdate(r) == req[r].pc = "update"

InPass(r) == req[r].pc \in {"line", "gather"}

\* C16: no request's update_lines_with_candidates runs while another
\* request's plan_trip or best_tram is in progress on the shared lines
C16_NoUpdateDuringPass ==
    \A r1, r2 \in Clients : ~(r1 # r2 /\ InUpdate(r1) /\ InPass(r2))

\* a plan_trip call of the handler has returned a plan
Returned(r) == req[r].plan # NoPlan

\* C30: once a plan_trip call of the planner has returned a plan, every
\* plan_trip call that returns afterwards returns that same plan, however
\* the concurrent callers interleave.
C30_OnePlanEverReturned ==
    \A r1, r2 \in Clients :
        (Returned(r1) /\ Returned(r2)) => req[r1].plan = req[r2].plan

\* the same for two requests with equal bodies
EqualBodiesOnePlan ==
    \A r1, r2 \in Clients :
        (Returned(r1) /\ Returned(r2) /\ req[r1].body = req[r2].body) =>
            req[r1].plan = req[r2].plan

\* a call that finds a stored plan returns it
StoredPlanIsReturned ==
    [][\A r \in Clients :
          (ApiPlanTripCall(r) /\ cached_plan # NoPlan) => req'[r].plan = cached_plan]_vars


\* ------------------------------------------------------------------------
\* Properties of the cache lock (checked under SpecCache)
\* ------------------------------------------------------------------------
\* the thread is inside a "with self._cache_lock:" block
InCritical(t) == threads[t].pc \in {"read", "leave", "write", "written"}

MutualExclusion ==
    \A t1, t2 \in Threads : InCritical(t1) /\ InCritical(t2) => t1 = t2 /\ cache_lock = t1

\* a value and the timestamp some thread stored together under that key
WrittenTogether(key, entry) ==
    /\ entry.timestamp # NONE
    /\ \E w \in Threads : KeyOf(w) = key /\ threads[w].wrote = entry

HasRead(t) == threads[t].pc \in {"leave", "fetch", "store", "write", "written", "done"}

ReadsComplete ==
    \A t \in Threads :
        HasRead(t) /\ t # "scan" =>
            threads[t].seen = NoEntry \/ WrittenTogether(KeyOf(t), threads[t].seen)

ScanReadsComplete ==
    threads["scan"].pc = "leave" =>
        threads["scan"].seen = NoEntry \/ WrittenTogether(KeyOf("scan"), threads["scan"].seen)

EntriesComplete ==
    \A key \in Keys : cache[key] = NoEntry \/ WrittenTogether(key, cache[key])

\* C17: every read of the cache sees no entry or a value with the timestamp
\* written together with it, and the reads and writes of the cache exclude
\* each other
C17_CacheReadsAreWhole ==
    /\ MutualExclusion
    /\ ReadsComplete
    /\ ScanReadsComplete
    /\ EntriesComplete

\* the scan has read an entry a worker stored while the other worker waits
\* for the lock to store its own
C17_Witness ==
    /\ threads["scan"].pc = "leave"
    /\ threads["scan"].seen # NoEntry
    /\ \E w \in Threads : threads[w].pc = "store"


\* ------------------------------------------------------------------------
\* Properties of the catalog loader (checked under SpecLoad)
\* ------------------------------------------------------------------------
\* the line object has its code, direction and stops, every stop its index
\* and code, and the indices are those of 0 .. number of stops - 1, once each
WellFormed(data) ==
    /\ data.code # MissingField /\ data.direction # MissingField
    /\ data.has_stations
    /\ \A p \in 1..Len(data.stations) :
          data.stations[p].index # MissingIndex /\ data.stations[p].code # MissingField
    /\ \A i \in 0..(Len(data.stations) - 1) :
          Cardinality({p \in 1..Len(data.stations) : data.stations[p].index = i}) = 1

PositionsMatchIndices(line) ==
    \A p \in 1..Len(line.stations) : line.stations[p].index = p - 1

\* C20: a malformed catalog document is rejected at load time, so no list
\* of lines is ever returned for it, and every line the planner runs on has
\* at list position p the stop of index p
C20_MalformedRejected ==
    load_pc \in {"loaded", "planned"} =>
        /\ \A i \in 1..Len(document) : WellFormed(document[i])
        /\ \A l \in 1..Len(loaded) : PositionsMatchIndices(loaded[l])

\* whenever the document is well formed, the loaded positions match
WellFormedLoadsInOrder ==
    load_pc \in {"loaded", "planned"} =>
        \A i \in 1..Len(document) :
            WellFormed(document[i]) => PositionsMatchIndices(loaded[i])


\* ------------------------------------------------------------------------
\* The worked scenario [8,5,3,9,2] (checked under SpecScenario)
\* ------------------------------------------------------------------------
IsScenario == raw_list = <<8, 5, 3, 9, 2>> /\ walking_time = 4

\* two vehicles: #1 raw 8, arrival 8, wait 4; #2 at offset 3, raw 9,
\* arrival 16.5 with the estimate 2.5, wait 12.5
ScenarioVehicles ==
    /\ Len(results) = 2
    /\ avg_travel_time = Rat(5, 2)
    /\ results[1].raw_wait = 8 /\ results[1].station_idx = ScenarioBoarding
    /\ results[1].arrival = RInt(8) /\ results[1].feasible
    /\ results[1].wait_at_stop = RInt(4)
    /\ results[2].raw_wait = 9 /\ results[2].station_idx = ScenarioBoarding - 3
    /\ results[2].arrival = Rat(33, 2) /\ results[2].feasible
    /\ results[2].wait_at_stop = Rat(25, 2)

BestIsVehicleOne ==
    /\ best.station_line # NoBest.station_line
    /\ IF best.station_line = NoBest.station_line THEN FALSE
       ELSE /\ best.tram.raw_wait = 8
            /\ best.tram.station_idx = ScenarioBoarding
            /\ best.tram.arrival = RInt(8)

BestReturned == done /\ best.station_line # NotCalled.station_line

\* C21: for the readings [8,5,3,9,2], floor 2 and walking time 4 the
\* planner infers exactly the two vehicles above and best_tram returns
\* vehicle #1
C21_ScenarioTwoVehicles ==
    (BestReturned /\ IsScenario) => ScenarioVehicles /\ BestIsVehicleOne

\* the inference of the scenario, in both variants
ScenarioInference == (done /\ IsScenario) => ScenarioVehicles

\* best_tram picks vehicle #1 whenever the line is in the plan
ScenarioBestOnPlannedLine ==
    (BestReturned /\ IsScenario /\ cached_plan # <<>>) => BestIsVehicleOne


\* ------------------------------------------------------------------------
\* Properties of the request validation (checked under SpecRequest)
\* ------------------------------------------------------------------------
\* the body test_plan_trip posts: {"candidates": [...]} with complete items
IsTestClientBody ==
    /\ request_body.candidates.present
    /\ Len(request_body.candidates.items) > 0
    /\ ~RaisesKeyError(request_body.candidates)
    /\ ~request_body.start_candidates.present
    /\ ~request_body.end_candidates.present

\* C24: the body the API test sends is accepted and answered with 200 and
\* execution_time, feasible_options and best_option
C24_TestBodyAccepted ==
    (response # NoResponse /\ IsTestClientBody) =>
        /\ response.status = 200
        /\ response.keys = {"execution_time", "feasible_options", "best_option"}

\* a body is answered with 200 exactly when it has both start_candidates
\* and end_candidates and every item of them has its walking_time
AcceptedBodies ==
    response # NoResponse =>
        (response.status = 200 <=>
            /\ request_body.start_candidates.present
            /\ request_body.end_candidates.present
            /\ ~RaisesKeyError(request_body.start_candidates)
            /\ ~RaisesKeyError(request_body.end_candidates))

====
